---- MODULE Spec2Model ----
(***************************************************************************)
(* A model of the query-language value (datum) core of                     *)
(* src/rdb_protocol/datum.cc: the tagged value, its comparison orders,     *)
(* and the primary- and secondary-key encodings.                           *)
(*                                                                         *)
(* Byte strings (std::string, datum_string_t, store_key_t) are sequences   *)
(* of numbers 0..255.  A double is the sequence of the 16 hexadecimal      *)
(* digits (0..15) of its IEEE-754 binary64 bit pattern, most significant   *)
(* digit first.  An operation that can throw or abort returns a record     *)
(* whose field st is "ok", the kind of the exception ("GENERIC",           *)
(* "NON_EXISTENCE"), or "abort" (a failed guarantee, sanity check or       *)
(* unreachable()).                                                         *)
(***************************************************************************)
EXTENDS Integers, Sequences, FiniteSets, TLC

VARIABLES
    pc,            \* which operation ran last
    lhs, rhs, third,   \* the datums an operation is applied to
    reql_version,  \* the reql_version_t passed to cmp / print_secondary
    cmp_out,       \* results of datum_t::cmp on lhs, rhs, third
    key_out,       \* results of datum_t::print_primary on lhs and rhs
    dx, dy,        \* two doubles (bit patterns) given to num_to_str_key
    hex_out,       \* the 16-hex-digit parts num_to_str_key wrote for dx, dy
    secondary,     \* the secondary string (or datum) of a secondary key
    primary,       \* the primary key bytes (store_key_t)
    tag_num,       \* boost::optional<uint64_t>: [has, v]
    composed,      \* result of compose_secondary / print_secondary
    components,    \* result of parse_secondary on composed
    truncated,     \* result of key_is_truncated on composed
    ret,           \* what the last merge, accessor or builder call returned
    conditions,    \* the std::set<std::string> *conditions of stats_merge
    array_size_limit,  \* limits.array_size_limit()
    map,           \* datum_object_builder_t::map
    vector         \* datum_array_builder_t::vector

vars == <<pc, lhs, rhs, third, reql_version, cmp_out, key_out, dx, dy, hex_out,
          secondary, primary, tag_num, composed, components, truncated,
          ret, conditions, array_size_limit, map, vector>>

\* the variables of the key operations, and those of merge and the builders
key_vars == <<key_out, dx, dy, hex_out, secondary, primary, tag_num, composed,
              components, truncated>>
builder_vars == <<ret, conditions, array_size_limit, map, vector>>

-----------------------------------------------------------------------------
(* Program constants *)

\* ql::tag_size
tag_size == 8
\* MAX_KEY_SIZE of the storage layer (btree/keys.hpp)
MAX_KEY_SIZE == 250
\* rdb_protocol::MAX_PRIMARY_KEY_SIZE
MAX_PRIMARY_KEY_SIZE == 128
\* UINT8_MAX
UINT8_MAX == 255
\* Stands for 2^64, the modulus of size_t arithmetic.  Every length of the
\* model is far below it, so a wrapped difference exceeds every length, as
\* it does in the program.
SIZE_T_MOD == 1073741824

-----------------------------------------------------------------------------
(* Byte strings *)

Min2(x, y) == IF x <= y THEN x ELSE y

\* std::string(n, b)
Rep(b, n) == [i \in 1..n |-> b]

\* std::string::substr(pos, n), 0-based pos, pos <= size
Substr(s, pos, n) == SubSeq(s, pos + 1, Min2(Len(s), pos + n))

\* x - y in size_t arithmetic
SizeSub(x, y) == IF x >= y THEN x - y ELSE x - y + SIZE_T_MOD

derived_cmp(x, y) == IF x = y THEN 0 ELSE IF x < y THEN -1 ELSE 1

\* memcmp order of two byte strings, the shorter first on an equal prefix;
\* the result is the sign
BytesCompare(x, y) ==
    LET n == Min2(Len(x), Len(y))
        diff == {i \in 1..n : x[i] # y[i]}
    IN  IF diff # {}
        THEN LET i == CHOOSE k \in diff : \A j \in diff : k <= j
             IN  IF x[i] < y[i] THEN -1 ELSE 1
        ELSE derived_cmp(Len(x), Len(y))

-----------------------------------------------------------------------------
(* Names *)

reql_type_string == <<36, 114, 101, 113, 108, 95, 116, 121, 112, 101, 36>>
time_string == <<84, 73, 77, 69>>
geometry_string == <<71, 69, 79, 77, 69, 84, 82, 89>>
literal_string == <<76, 73, 84, 69, 82, 65, 76>>
binary_string == <<66, 73, 78, 65, 82, 89>>
grouped_data_string == <<71, 82, 79, 85, 80, 69, 68, 95, 68, 65, 84, 65>>
value_key == <<118, 97, 108, 117, 101>>
epoch_time_key == <<101, 112, 111, 99, 104, 95, 116, 105, 109, 101>>
binary_key_prefix == <<80, 66, 73, 78, 65, 82, 89, 58>>

Versions == {"v1_13", "v1_14", "v1_16_is_latest"}

-----------------------------------------------------------------------------
(* Doubles: the 16 hex digits of the binary64 bit pattern *)

Zero13 == Rep(0, 13)

\* the bit pattern with sign bit s, biased exponent e (0..2047) and the 13
\* mantissa digits m
Dbl(s, e, m) == <<s * 8 + (e \div 256), (e \div 16) % 16, e % 16>> \o m

DblSignBit(u) == u[1] >= 8
\* the low 63 bits
DblMagnitude(u) == [i \in 1..Len(u) |-> IF i = 1 THEN u[1] % 8 ELSE u[i]]
DblIsZero(u) == \A i \in 1..Len(u) : DblMagnitude(u)[i] = 0
\* risfinite: the exponent is not all ones
risfinite(u) == ~(u[1] % 8 = 7 /\ u[2] = 15 /\ u[3] = 15)

\* a == b on finite doubles: the same bit pattern, or both zeroes
DblEq(x, y) == x = y \/ (DblIsZero(x) /\ DblIsZero(y))
\* a < b on finite doubles: a finite binary64 is (-1)^s * f(e, m) with f
\* strictly increasing in the 63-bit magnitude
DblLess(x, y) ==
    /\ ~DblEq(x, y)
    /\ IF DblSignBit(x) # DblSignBit(y)
       THEN DblSignBit(x)
       ELSE IF DblSignBit(x)
            THEN BytesCompare(DblMagnitude(y), DblMagnitude(x)) < 0
            ELSE BytesCompare(DblMagnitude(x), DblMagnitude(y)) < 0

\* derived_cmp<double>
derived_cmp_num(x, y) == IF DblEq(x, y) THEN 0 ELSE IF DblLess(x, y) THEN -1 ELSE 1

D_zero == Dbl(0, 0, Zero13)
D_negzero == Dbl(1, 0, Zero13)
D_one == Dbl(0, 1023, Zero13)
D_negone == Dbl(1, 1023, Zero13)
D_two == Dbl(0, 1024, Zero13)

\* strprintf("%.20g", d), for the doubles the model builds datums from
reconstructable_double(u) ==
    CASE u = D_zero -> <<48>>
      [] u = D_negzero -> <<45, 48>>
      [] u = D_one -> <<49>>
      [] u = D_negone -> <<45, 49>>
      [] u = D_two -> <<50>>

\* one digit of "%x"
HexChar(n) == IF n < 10 THEN 48 + n ELSE 87 + n

\* The mangling of num_to_str_key and its "%.16x" output
mangle_double(u) ==
    IF DblSignBit(u)
    THEN [i \in 1..Len(u) |-> HexChar(15 - u[i])]
    ELSE [i \in 1..Len(u) |-> HexChar(IF i = 1 THEN u[1] + 8 ELSE u[i])]

-----------------------------------------------------------------------------
(* Datums *)

Datum(t, bo, n, s, arr, obj) ==
    [type |-> t, r_bool |-> bo, r_num |-> n, r_str |-> s, r_array |-> arr,
     r_object |-> obj]

\* datum_t(): the uninitialized sentinel
Uninit == Datum("UNINITIALIZED", FALSE, <<>>, <<>>, <<>>, <<>>)
Null == Datum("R_NULL", FALSE, <<>>, <<>>, <<>>, <<>>)
Bool(v) == Datum("R_BOOL", v, <<>>, <<>>, <<>>, <<>>)
Num(u) == Datum("R_NUM", FALSE, u, <<>>, <<>>, <<>>)
Str(s) == Datum("R_STR", FALSE, <<>>, s, <<>>, <<>>)
Binary(s) == Datum("R_BINARY", FALSE, <<>>, s, <<>>, <<>>)
Arr(elems) == Datum("R_ARRAY", FALSE, <<>>, <<>>, elems, <<>>)
\* pairs: a sequence of [first, second] in ascending key order
Obj(pairs) == Datum("R_OBJECT", FALSE, <<>>, <<>>, <<>>, pairs)
Pair(k, v) == [first |-> k, second |-> v]

has(d) == d.type # "UNINITIALIZED"

\* The rank of type_t's enumerators, as derived_cmp(get_type(), ...) sees it
type_rank(t) ==
    CASE t = "R_NULL" -> 1
      [] t = "R_BOOL" -> 2
      [] t = "R_NUM" -> 3
      [] t = "R_STR" -> 4
      [] t = "R_BINARY" -> 5
      [] t = "R_ARRAY" -> 6
      [] t = "R_OBJECT" -> 7

Ok(v) == [st |-> "ok", v |-> v]
Fail(kind) == [st |-> kind, v |-> 0]

\* datum_string_t::compare
str_compare(x, y) == BytesCompare(x, y)

\* get_field(key, NOTHROW): binary search over the sorted pairs
RECURSIVE get_field_search(_, _, _, _)
get_field_search_lower_half(pairs, key, range_beg, range_end) ==
    IF range_beg < range_end
    THEN LET center == range_beg + ((range_end - range_beg) \div 2)
             c == str_compare(key, pairs[center + 1].first)
         IN  IF c = 0 THEN pairs[center + 1].second
             ELSE IF c < 0 THEN get_field_search(pairs, key, range_beg, center)
             ELSE Uninit
    ELSE Uninit
get_field_search(pairs, key, range_beg, range_end) ==
    IF range_beg < range_end
    THEN LET center == range_beg + ((range_end - range_beg) \div 2)
             c == str_compare(key, pairs[center + 1].first)
         IN  IF c = 0 THEN pairs[center + 1].second
             ELSE IF c < 0 THEN get_field_search(pairs, key, range_beg, center)
             ELSE get_field_search(pairs, key, center + 1, range_end)
    ELSE Uninit

get_field(d, key) == get_field_search(d.r_object, key, 0, Len(d.r_object))

is_ptype(d) ==
    d.type = "R_BINARY" \/ (d.type = "R_OBJECT" /\ has(get_field(d, reql_type_string)))

\* get_reql_type() of a pseudotype: fails when $reql_type$ is not a string
get_reql_type(d) ==
    IF d.type = "R_BINARY" THEN Ok(binary_string)
    ELSE LET f == get_field(d, reql_type_string)
         IN  IF f.type = "R_STR" THEN Ok(f.r_str) ELSE Fail("GENERIC")

raw_type_name(t) ==
    CASE t = "R_NULL" -> <<78, 85, 76, 76>>
      [] t = "R_BINARY" -> <<80, 84, 89, 80, 69, 60>> \o binary_string \o <<62>>
      [] t = "R_BOOL" -> <<66, 79, 79, 76>>
      [] t = "R_NUM" -> <<78, 85, 77, 66, 69, 82>>
      [] t = "R_STR" -> <<83, 84, 82, 73, 78, 71>>
      [] t = "R_ARRAY" -> <<65, 82, 82, 65, 89>>
      [] t = "R_OBJECT" -> <<79, 66, 74, 69, 67, 84>>

get_type_name(d) ==
    IF is_ptype(d)
    THEN LET r == get_reql_type(d)
         IN  IF r.st = "ok" THEN Ok(<<80, 84, 89, 80, 69, 60>> \o r.v \o <<62>>) ELSE r
    ELSE Ok(raw_type_name(d.type))

\* pseudo_compares_as_obj() of a pseudotype
pseudo_compares_as_obj(d) ==
    LET r == get_reql_type(d)
    IN  IF r.st = "ok" THEN Ok(r.v = geometry_string) ELSE r

-----------------------------------------------------------------------------
(* Comparison *)

\* pseudo::time_cmp: by the epoch_time fields
time_cmp(a, b) ==
    LET x == get_field(a, epoch_time_key)
        y == get_field(b, epoch_time_key)
    IN  IF ~has(x) \/ ~has(y) THEN Fail("NON_EXISTENCE")
        ELSE IF x.type # "R_NUM" \/ y.type # "R_NUM" THEN Fail("GENERIC")
        ELSE Ok(derived_cmp_num(x.r_num, y.r_num))

\* pseudo_cmp of a pseudotype a
pseudo_cmp(a, b) ==
    IF a.type = "R_BINARY"
    THEN IF b.type = "R_BINARY" THEN Ok(str_compare(a.r_str, b.r_str))
         ELSE Fail("GENERIC")
    ELSE LET r == get_reql_type(a)
         IN  IF r.st # "ok" THEN r
             ELSE IF r.v = time_string THEN time_cmp(a, b)
             ELSE Fail("GENERIC")

\* is_ptype() && !pseudo_compares_as_obj()
ptype_not_as_obj(d) ==
    IF is_ptype(d)
    THEN LET r == pseudo_compares_as_obj(d) IN IF r.st = "ok" THEN Ok(~r.v) ELSE r
    ELSE Ok(FALSE)

\* both pseudotypes: by $reql_type$ first, then by pseudo_cmp
ptype_pair_cmp(a, b) ==
    LET ra == get_reql_type(a)
        rb == get_reql_type(b)
    IN  IF ra.st # "ok" THEN ra
        ELSE IF rb.st # "ok" THEN rb
        ELSE IF ra.v # rb.v THEN Ok(BytesCompare(ra.v, rb.v))
        ELSE pseudo_cmp(a, b)

\* derived_cmp(get_type_name(), rhs.get_type_name())
type_name_cmp(a, b) ==
    LET na == get_type_name(a)
        nb == get_type_name(b)
    IN  IF na.st # "ok" THEN na
        ELSE IF nb.st # "ok" THEN nb
        ELSE Ok(BytesCompare(na.v, nb.v))

RECURSIVE v1_13_cmp(_, _)
RECURSIVE v1_13_arr_loop(_, _, _)
RECURSIVE v1_13_obj_loop(_, _, _)

\* the R_ARRAY case: the for loop from index i (0-based)
v1_13_arr_loop(x, y, i) ==
    IF i < Len(x)
    THEN IF i >= Len(y) THEN Ok(1)
         ELSE LET c == v1_13_cmp(x[i + 1], y[i + 1])
              IN  IF c.st # "ok" \/ c.v # 0 THEN c ELSE v1_13_arr_loop(x, y, i + 1)
    ELSE IF i = Len(y) THEN Ok(0) ELSE Ok(-1)

\* the R_OBJECT case: the while loop from i = i2
v1_13_obj_loop(x, y, i) ==
    IF i < Len(x) /\ i < Len(y)
    THEN LET k == str_compare(x[i + 1].first, y[i + 1].first)
         IN  IF k # 0 THEN Ok(k)
             ELSE LET c == v1_13_cmp(x[i + 1].second, y[i + 1].second)
                  IN  IF c.st # "ok" \/ c.v # 0 THEN c
                      ELSE v1_13_obj_loop(x, y, i + 1)
    ELSE IF i # Len(x) THEN Ok(1)
    ELSE IF i # Len(y) THEN Ok(-1)
    ELSE Ok(0)

\* The tests before the switch: 1 or -1 when exactly one side is a pseudotype,
\* the order of the type_t values when the variants differ, 0 to go on
v1_13_type_order_ptype_first(a, b) ==
    IF is_ptype(a) /\ ~is_ptype(b) THEN -1
    ELSE IF ~is_ptype(a) /\ is_ptype(b) THEN 1
    ELSE derived_cmp(type_rank(a.type), type_rank(b.type))
v1_13_type_order(a, b) ==
    IF is_ptype(a) /\ ~is_ptype(b) THEN 1
    ELSE IF ~is_ptype(a) /\ is_ptype(b) THEN -1
    ELSE derived_cmp(type_rank(a.type), type_rank(b.type))

v1_13_cmp(a, b) ==
    IF v1_13_type_order(a, b) # 0 THEN Ok(v1_13_type_order(a, b))
    ELSE CASE a.type = "R_NULL" -> Ok(0)
           [] a.type = "R_BOOL" -> Ok(derived_cmp(IF a.r_bool THEN 1 ELSE 0,
                                                  IF b.r_bool THEN 1 ELSE 0))
           [] a.type = "R_NUM" -> Ok(derived_cmp_num(a.r_num, b.r_num))
           [] a.type = "R_STR" -> Ok(str_compare(a.r_str, b.r_str))
           [] a.type = "R_ARRAY" -> v1_13_arr_loop(a.r_array, b.r_array, 0)
           [] a.type = "R_OBJECT" ->
                LET p == ptype_not_as_obj(a)
                IN  IF p.st # "ok" THEN p
                    ELSE IF p.v THEN ptype_pair_cmp(a, b)
                    ELSE v1_13_obj_loop(a.r_object, b.r_object, 0)
           \* case R_BINARY: unreachable()
           [] OTHER -> Fail("abort")

RECURSIVE modern_cmp(_, _)
RECURSIVE modern_arr_loop(_, _, _)
RECURSIVE modern_obj_loop(_, _, _)

modern_arr_loop(x, y, i) ==
    IF i < Len(x)
    THEN IF i >= Len(y) THEN Ok(1)
         ELSE LET c == modern_cmp(x[i + 1], y[i + 1])
              IN  IF c.st # "ok" \/ c.v # 0 THEN c ELSE modern_arr_loop(x, y, i + 1)
    ELSE IF i = Len(y) THEN Ok(0) ELSE Ok(-1)

modern_obj_loop(x, y, i) ==
    IF i < Len(x) /\ i < Len(y)
    THEN LET k == str_compare(x[i + 1].first, y[i + 1].first)
         IN  IF k # 0 THEN Ok(k)
             ELSE LET c == modern_cmp(x[i + 1].second, y[i + 1].second)
                  IN  IF c.st # "ok" \/ c.v # 0 THEN c
                      ELSE modern_obj_loop(x, y, i + 1)
    ELSE IF i # Len(x) THEN Ok(1)
    ELSE IF i # Len(y) THEN Ok(-1)
    ELSE Ok(0)

\* the part of modern_cmp after the pseudotype tests
modern_cmp_plain(a, b) ==
    IF a.type # b.type THEN Ok(derived_cmp(type_rank(a.type), type_rank(b.type)))
    ELSE CASE a.type = "R_NULL" -> Ok(0)
           [] a.type = "R_BOOL" -> Ok(derived_cmp(IF a.r_bool THEN 1 ELSE 0,
                                                  IF b.r_bool THEN 1 ELSE 0))
           [] a.type = "R_NUM" -> Ok(derived_cmp_num(a.r_num, b.r_num))
           [] a.type = "R_STR" -> Ok(str_compare(a.r_str, b.r_str))
           [] a.type = "R_ARRAY" -> modern_arr_loop(a.r_array, b.r_array, 0)
           [] a.type = "R_OBJECT" -> modern_obj_loop(a.r_object, b.r_object, 0)
           \* case R_BINARY: unreachable()
           [] OTHER -> Fail("abort")

modern_cmp_rank_first(a, b) ==
    LET lp == ptype_not_as_obj(a)
        rp == ptype_not_as_obj(b)
    IN  IF lp.st # "ok" THEN lp
        ELSE IF rp.st # "ok" THEN rp
        ELSE IF lp.v /\ rp.v THEN ptype_pair_cmp(a, b)
        ELSE IF a.type # b.type
             THEN Ok(derived_cmp(type_rank(a.type), type_rank(b.type)))
        ELSE IF lp.v \/ rp.v THEN type_name_cmp(a, b)
        ELSE modern_cmp_plain(a, b)

modern_cmp(a, b) ==
    LET lp == ptype_not_as_obj(a)
        rp == ptype_not_as_obj(b)
    IN  IF lp.st # "ok" THEN lp
        ELSE IF rp.st # "ok" THEN rp
        ELSE IF lp.v /\ rp.v THEN ptype_pair_cmp(a, b)
        ELSE IF lp.v \/ rp.v THEN type_name_cmp(a, b)
        ELSE modern_cmp_plain(a, b)

cmp(version, a, b) ==
    IF version = "v1_13" THEN v1_13_cmp(a, b) ELSE modern_cmp(a, b)

-----------------------------------------------------------------------------
(* Key encoding.  Each *_to_str_key(d, out) returns str_out after the call,
   given str_out = out before it. *)

num_to_str_key(d, out) ==
    IF d.type # "R_NUM" THEN Fail("abort")
    ELSE Ok(out \o <<78>> \o mangle_double(d.r_num) \o <<35>>
                \o reconstructable_double(d.r_num))

\* The escaping loop of binary_to_str_key over bytes lo..hi of key (1-based):
\* the escapes of the bytes in order, the range split in halves to keep the
\* evaluation shallow
RECURSIVE escape_range(_, _, _)
escape_range(key, lo, hi) ==
    IF lo > hi THEN <<>>
    ELSE IF lo = hi
    THEN (IF key[lo] = 0 THEN <<1, 1>>
          ELSE IF key[lo] = 1 THEN <<1, 2>>
          ELSE <<key[lo]>>)
    ELSE escape_range(key, lo, (lo + hi) \div 2)
         \o escape_range(key, ((lo + hi) \div 2) + 1, hi)

escape_nul(key, n) == escape_range(key, 1, n)

binary_to_str_key(d, out) ==
    IF d.type # "R_BINARY" THEN Fail("GENERIC")
    ELSE LET o1 == out \o binary_key_prefix
             to_append == Min2(SizeSub(MAX_KEY_SIZE, Len(o1)), Len(d.r_str))
         IN  Ok(o1 \o escape_nul(d.r_str, to_append))

str_to_str_key(d, out) ==
    IF d.type # "R_STR" THEN Fail("abort")
    ELSE LET o1 == out \o <<83>>
             to_append == Min2(SizeSub(MAX_KEY_SIZE, Len(o1)), Len(d.r_str))
         IN  Ok(o1 \o SubSeq(d.r_str, 1, to_append))

bool_to_str_key(d, out) ==
    IF d.type # "R_BOOL" THEN Fail("abort")
    ELSE Ok(out \o <<66>> \o (IF d.r_bool THEN <<116>> ELSE <<102>>))

\* pseudo::time_to_str_key: "PTIME:" and the number key of epoch_time
time_to_str_key(d, out) ==
    LET e == get_field(d, epoch_time_key)
    IN  IF ~has(e) THEN Fail("NON_EXISTENCE")
        ELSE num_to_str_key(e, out \o <<80, 84, 73, 77, 69, 58>>)

pt_to_str_key(d, out) ==
    IF ~is_ptype(d) THEN Fail("abort")
    ELSE LET r == get_reql_type(d)
         IN  IF r.st # "ok" THEN r
             ELSE IF r.v = time_string THEN time_to_str_key(d, out)
             ELSE Fail("GENERIC")

RECURSIVE array_to_str_key(_, _)
RECURSIVE array_key_loop(_, _, _)

\* the loop with the NUL byte written between elements only
RECURSIVE array_key_loop_no_final_nul(_, _, _)
array_key_loop_no_final_nul(items, i, out) ==
    IF i < Len(items) /\ Len(out) < MAX_KEY_SIZE
    THEN LET item == items[i + 1]
             appended(r) ==
                 IF r.st # "ok" THEN r
                 ELSE array_key_loop_no_final_nul(
                          items, i + 1,
                          IF i + 1 < Len(items) THEN r.v \o <<0>> ELSE r.v)
         IN  appended(CASE item.type = "R_NUM" -> num_to_str_key(item, out)
                        [] item.type = "R_STR" -> str_to_str_key(item, out)
                        [] item.type = "R_BINARY" -> binary_to_str_key(item, out)
                        [] item.type = "R_BOOL" -> bool_to_str_key(item, out)
                        [] item.type = "R_ARRAY" -> array_to_str_key(item, out)
                        [] OTHER -> Fail("GENERIC"))
    ELSE Ok(out)

\* the for loop of array_to_str_key from index i (0-based)
array_key_loop(items, i, out) ==
    IF i < Len(items) /\ Len(out) < MAX_KEY_SIZE
    THEN LET item == items[i + 1]
             r == CASE item.type = "R_NUM" -> num_to_str_key(item, out)
                    [] item.type = "R_STR" -> str_to_str_key(item, out)
                    [] item.type = "R_BINARY" -> binary_to_str_key(item, out)
                    [] item.type = "R_BOOL" -> bool_to_str_key(item, out)
                    [] item.type = "R_ARRAY" -> array_to_str_key(item, out)
                    [] item.type = "R_OBJECT" /\ is_ptype(item) -> pt_to_str_key(item, out)
                    [] item.type = "R_OBJECT" /\ ~is_ptype(item) -> Fail("GENERIC")
                    [] item.type = "R_NULL" -> Fail("GENERIC")
                    [] OTHER -> Fail("abort")
         IN  IF r.st # "ok" THEN r
             ELSE array_key_loop(items, i + 1, r.v \o <<0>>)
    ELSE Ok(out)

array_to_str_key(d, out) ==
    IF d.type # "R_ARRAY" THEN Fail("abort")
    ELSE array_key_loop(d.r_array, 0, out \o <<65>>)

\* the dispatch on get_type() shared by print_primary, print_secondary and
\* truncated_secondary
datum_to_str_key(d) ==
    CASE d.type = "R_NUM" -> num_to_str_key(d, <<>>)
      [] d.type = "R_STR" -> str_to_str_key(d, <<>>)
      [] d.type = "R_BINARY" -> binary_to_str_key(d, <<>>)
      [] d.type = "R_BOOL" -> bool_to_str_key(d, <<>>)
      [] d.type = "R_ARRAY" -> array_to_str_key(d, <<>>)
      [] d.type = "R_OBJECT" /\ is_ptype(d) -> pt_to_str_key(d, <<>>)
      [] d.type = "R_OBJECT" /\ ~is_ptype(d) -> Fail("GENERIC")
      [] d.type = "R_NULL" -> Fail("GENERIC")
      [] OTHER -> Fail("abort")

print_primary_no_size_check(d) == datum_to_str_key(d)
print_primary(d) ==
    LET s == datum_to_str_key(d)
    IN  IF s.st # "ok" THEN s
        ELSE IF Len(s.v) > MAX_PRIMARY_KEY_SIZE THEN Fail("GENERIC")
        ELSE s

-----------------------------------------------------------------------------
(* Secondary keys *)

NoTag == [has |-> FALSE, v |-> 0]
Tag(n) == [has |-> TRUE, v |-> n]

\* The 8 bytes of a uint64_t on a little-endian host.  The tags of the model
\* are below 2^31, so bytes 4..7 are zero.
encode_tag_num(n) ==
    <<n % 256, (n \div 256) % 256, (n \div 65536) % 256, (n \div 16777216) % 256,
      0, 0, 0, 0>>

\* *reinterpret_cast<const uint64_t *>(tag_str.data()), bytes 4..7 zero
decode_tag_num(s) == s[1] + 256 * s[2] + 65536 * s[3] + 16777216 * s[4]

trunc_size_without_offsets(primary_key_size) ==
    SizeSub(SizeSub(MAX_KEY_SIZE, primary_key_size), tag_size)
trunc_size(primary_key_size) ==
    SizeSub(SizeSub(SizeSub(MAX_KEY_SIZE, primary_key_size), tag_size), 2)

max_trunc_size == trunc_size(MAX_PRIMARY_KEY_SIZE)

mangle_secondary(sec, prim, tag) ==
    LET pk_offset == Len(sec) % 256
        tag_offset == ((Len(prim) % 256) + pk_offset) % 256
        res == sec \o prim \o tag \o <<pk_offset>> \o <<tag_offset>>
    IN  IF ~(Len(sec) < UINT8_MAX) THEN Fail("abort")
        ELSE IF ~(Len(sec) + Len(prim) < UINT8_MAX) THEN Fail("abort")
        ELSE IF ~(Len(res) <= MAX_KEY_SIZE) THEN Fail("abort")
        ELSE Ok(res)

compose_secondary(secondary_key, primary_key, tag) ==
    IF Len(primary_key) > MAX_PRIMARY_KEY_SIZE THEN Fail("GENERIC")
    ELSE LET tag_string == IF tag.has THEN encode_tag_num(tag.v) ELSE <<>>
             truncated_secondary_key ==
                 Substr(secondary_key, 0, trunc_size(Len(primary_key)))
         IN  mangle_secondary(truncated_secondary_key, primary_key, tag_string)

\* the secondary string print_secondary hands to compose_secondary
secondary_key_string_no_terminator(version, d) == datum_to_str_key(d)
secondary_key_string(version, d) ==
    LET s == datum_to_str_key(d)
    IN  IF s.st # "ok" THEN s
        ELSE IF version = "v1_13" THEN s
        ELSE Ok(s.v \o <<0>>)

print_secondary(version, d, primary_key, tag) ==
    LET s == secondary_key_string(version, d)
    IN  IF s.st # "ok" THEN s ELSE compose_secondary(s.v, primary_key, tag)

\* truncated_secondary(): the key of the datum cut to max_trunc_size()
truncated_secondary_not_cut(d) == datum_to_str_key(d)
truncated_secondary(d) ==
    LET s == datum_to_str_key(d)
    IN  IF s.st # "ok" THEN s
        ELSE IF Len(s.v) >= max_trunc_size THEN Ok(Substr(s.v, 0, max_trunc_size))
        ELSE s

Components(st, sec, prim, tag) ==
    [st |-> st, secondary |-> sec, primary |-> prim, tag_num |-> tag]

parse_secondary(key) ==
    LET start_of_tag == key[Len(key)]
        start_of_primary == key[Len(key) - 1]
        tag_str == Substr(key, start_of_tag, SizeSub(Len(key), start_of_tag + 2))
    IN  IF ~(start_of_primary < start_of_tag)
        THEN Components("abort", <<>>, <<>>, NoTag)
        \* substr throws std::out_of_range in a THROWS_NOTHING function
        ELSE IF start_of_tag > Len(key)
        THEN Components("abort", <<>>, <<>>, NoTag)
        ELSE Components("ok",
                        Substr(key, 0, start_of_primary),
                        Substr(key, start_of_primary, start_of_tag - start_of_primary),
                        IF Len(tag_str) # 0 THEN Tag(decode_tag_num(tag_str))
                        ELSE NoTag)

extract_tag(key) == parse_secondary(key)

key_is_truncated(key) ==
    LET c == extract_tag(key)
    IN  IF c.st # "ok" THEN Fail(c.st)
        ELSE IF c.tag_num.has THEN Ok(Len(key) = MAX_KEY_SIZE)
        ELSE Ok(Len(key) = MAX_KEY_SIZE - tag_size)

-----------------------------------------------------------------------------
(* Bounds and the inputs the operations are applied to *)

\* longest string and binary of the comparison inputs, over Alphabet
MaxStrLen == 1
\* longest array of the comparison inputs
MaxArrLen == 2
\* longest array of the primary-key inputs
MaxKeyArrLen == 2
\* longest secondary string handed to compose_secondary
MaxSecondaryLen == 252
\* primary keys of every length up to this one, besides those around
\* MAX_PRIMARY_KEY_SIZE
MaxShortPk == 3

None == "none"

Alphabet == {97, 98}
SeqsUpTo(S, n) == UNION {[1..k -> S] : k \in 0..n}

key_a == <<97>>
key_b == <<98>>
key_z == <<122>>
timezone_key == <<116, 105, 109, 101, 122, 111, 110, 101>>

Time(e) == Obj(<<Pair(reql_type_string, Str(time_string)),
                 Pair(epoch_time_key, Num(e)),
                 Pair(timezone_key, Str(<<43, 48, 48, 58, 48, 48>>))>>)
Geometry(x) == Obj(<<Pair(reql_type_string, Str(geometry_string)),
                     Pair(<<99, 111, 111, 114, 100, 105, 110, 97, 116, 101, 115>>,
                          Arr(<<Num(x), Num(D_zero)>>)),
                     Pair(<<116, 121, 112, 101>>, Str(<<80, 111, 105, 110, 116>>))>>)
Literal(v) == Obj(<<Pair(reql_type_string, Str(literal_string)), Pair(value_key, v)>>)
\* the object of to_datum_for_client_serialization, built without sanitization
GroupedData == Obj(<<Pair(reql_type_string, Str(grouped_data_string)),
                     Pair(<<100, 97, 116, 97>>, Arr(<<>>))>>)

CmpNums == {Num(D_negone), Num(D_negzero), Num(D_zero), Num(D_one)}
CmpElems == {Null, Num(D_one), Str(key_a)}
CmpObjects ==
    {Obj(<<>>), Obj(<<Pair(key_a, Num(D_one))>>), Obj(<<Pair(key_a, Num(D_two))>>),
     Obj(<<Pair(key_b, Num(D_one))>>),
     Obj(<<Pair(key_a, Num(D_one)), Pair(key_b, Num(D_one))>>),
     Obj(<<Pair(key_z, Num(D_one))>>),
     Time(D_zero), Time(D_one), Geometry(D_zero), Literal(Num(D_one)), GroupedData}

CmpDatums ==
    {Null, Bool(FALSE), Bool(TRUE)} \cup CmpNums
    \cup {Str(s) : s \in SeqsUpTo(Alphabet, MaxStrLen)}
    \cup {Binary(s) : s \in SeqsUpTo(Alphabet, MaxStrLen)}
    \cup {Arr(e) : e \in SeqsUpTo(CmpElems, MaxArrLen)}
    \cup CmpObjects

ThirdDatums ==
    {Null, Num(D_one), Str(key_a), Binary(key_a), Arr(<<Num(D_one)>>),
     Obj(<<Pair(key_z, Num(D_one))>>), Geometry(D_zero), Time(D_zero)}

-----------------------------------------------------------------------------
(* Comparison: cmp applied to lhs, rhs and third under reql_version *)

InitCmp ==
    /\ pc = "cmp_start"
    /\ lhs \in CmpDatums
    /\ rhs \in CmpDatums
    /\ third \in ThirdDatums
    /\ reql_version \in Versions
    /\ cmp_out = None
    /\ key_out = None /\ dx = None /\ dy = None /\ hex_out = None
    /\ secondary = None /\ primary = None /\ tag_num = None
    /\ composed = None /\ components = None /\ truncated = None
    /\ ret = None /\ conditions = None /\ array_size_limit = None
    /\ map = None /\ vector = None

Compare ==
    /\ pc = "cmp_start"
    /\ cmp_out' = [ab |-> cmp(reql_version, lhs, rhs),
                   ba |-> cmp(reql_version, rhs, lhs),
                   aa |-> cmp(reql_version, lhs, lhs),
                   bc |-> cmp(reql_version, rhs, third),
                   ac |-> cmp(reql_version, lhs, third)]
    /\ pc' = "cmp_done"
    /\ UNCHANGED <<lhs, rhs, third, reql_version, key_out, dx, dy, hex_out,
                   secondary, primary, tag_num, composed, components, truncated>>
    /\ UNCHANGED builder_vars

NextCmp == Compare

SpecCmp == InitCmp /\ [][NextCmp]_vars

-----------------------------------------------------------------------------
(* Claims about cmp, checked under SpecCmp *)

Sign(v) == IF v < 0 THEN -1 ELSE IF v > 0 THEN 1 ELSE 0

\* C2: for every reql_version and all non-UNINITIALIZED datums a, b, c,
\* cmp returns a result without aborting or raising, two BINARY datums
\* compare bytewise, cmp(a, a) = 0, sign(cmp(a, b)) = -sign(cmp(b, a)), and
\* cmp(a, b) <= 0 and cmp(b, c) <= 0 imply cmp(a, c) <= 0.
C2_CmpIsTotalOrder ==
    pc = "cmp_done" =>
        /\ \A k \in {"ab", "ba", "aa", "bc", "ac"} : cmp_out[k].st = "ok"
        /\ (lhs.type = "R_BINARY" /\ rhs.type = "R_BINARY"
                => cmp_out.ab.v = BytesCompare(lhs.r_str, rhs.r_str))
        /\ cmp_out.aa.v = 0
        /\ Sign(cmp_out.ab.v) = -Sign(cmp_out.ba.v)
        /\ (cmp_out.ab.v <= 0 /\ cmp_out.bc.v <= 0 => cmp_out.ac.v <= 0)

\* the rank NULL < BOOL < NUM < STR < ARRAY < OBJECT
VariantRank(t) ==
    CASE t = "R_NULL" -> 1
      [] t = "R_BOOL" -> 2
      [] t = "R_NUM" -> 3
      [] t = "R_STR" -> 4
      [] t = "R_ARRAY" -> 5
      [] t = "R_OBJECT" -> 6

IsOrderedPtype(d) ==
    /\ is_ptype(d)
    /\ (d.type = "R_OBJECT" => get_field(d, reql_type_string).r_str # geometry_string)

ReqlTypeName(d) ==
    IF d.type = "R_BINARY" THEN binary_string ELSE get_field(d, reql_type_string).r_str

\* the lexicographic order of two arrays under modern_cmp
ArrayOrder(x, y) ==
    LET n == Min2(Len(x), Len(y))
        diff == {i \in 1..n : modern_cmp(x[i], y[i]).v # 0}
    IN  IF diff # {}
        THEN modern_cmp(x[CHOOSE k \in diff : \A j \in diff : k <= j],
                        y[CHOOSE k \in diff : \A j \in diff : k <= j]).v
        ELSE derived_cmp(Len(x), Len(y))

\* the order of two objects by parallel traversal: key, then value
ObjectOrder(x, y) ==
    LET n == Min2(Len(x), Len(y))
        diff == {i \in 1..n : \/ x[i].first # y[i].first
                              \/ modern_cmp(x[i].second, y[i].second).v # 0}
    IN  IF diff # {}
        THEN LET i == CHOOSE k \in diff : \A j \in diff : k <= j
             IN  IF x[i].first # y[i].first
                 THEN BytesCompare(x[i].first, y[i].first)
                 ELSE modern_cmp(x[i].second, y[i].second).v
        ELSE derived_cmp(Len(x), Len(y))

\* C4: under v1_14 and v1_16_is_latest, two pseudotypes other than GEOMETRY
\* compare by $reql_type$ name first and by the pseudotype comparator only
\* then; when exactly one side is such a pseudotype the result is the
\* comparison of the get_type_name() strings; otherwise the variant rank
\* decides, and within one variant the variant's own order.
C4_ModernCmpOrder ==
    (pc = "cmp_done" /\ reql_version # "v1_13") =>
        IF IsOrderedPtype(lhs) /\ IsOrderedPtype(rhs)
        THEN IF ReqlTypeName(lhs) # ReqlTypeName(rhs)
             THEN /\ cmp_out.ab.st = "ok"
                  /\ cmp_out.ab.v = BytesCompare(ReqlTypeName(lhs), ReqlTypeName(rhs))
             ELSE /\ cmp_out.ab.st = pseudo_cmp(lhs, rhs).st
                  /\ cmp_out.ab.v = pseudo_cmp(lhs, rhs).v
        ELSE IF IsOrderedPtype(lhs) \/ IsOrderedPtype(rhs)
        THEN /\ cmp_out.ab.st = "ok"
             /\ cmp_out.ab.v = BytesCompare(get_type_name(lhs).v, get_type_name(rhs).v)
        ELSE /\ cmp_out.ab.st = "ok"
             /\ IF lhs.type # rhs.type
                THEN cmp_out.ab.v = derived_cmp(type_rank(lhs.type), type_rank(rhs.type))
                ELSE CASE lhs.type = "R_NULL" -> cmp_out.ab.v = 0
                       [] lhs.type = "R_BOOL" ->
                            cmp_out.ab.v = (IF lhs.r_bool = rhs.r_bool THEN 0
                                            ELSE IF rhs.r_bool THEN -1 ELSE 1)
                       [] lhs.type = "R_NUM" ->
                            cmp_out.ab.v = derived_cmp_num(lhs.r_num, rhs.r_num)
                       [] lhs.type = "R_STR" ->
                            cmp_out.ab.v = BytesCompare(lhs.r_str, rhs.r_str)
                       [] lhs.type = "R_ARRAY" ->
                            cmp_out.ab.v = ArrayOrder(lhs.r_array, rhs.r_array)
                       [] lhs.type = "R_OBJECT" ->
                            cmp_out.ab.v = ObjectOrder(lhs.r_object, rhs.r_object)

\* a TIME against a string: ordered by "PTYPE<TIME>" < "STRING", against the
\* variant rank; and two TIMEs ordered by the pseudotype comparator
C4_Witness ==
    /\ pc = "cmp_done" /\ reql_version = "v1_14"
    /\ IsOrderedPtype(lhs) /\ lhs.type = "R_OBJECT"
    /\ rhs.type = "R_STR"
    /\ cmp_out.ab.v = -1
    /\ type_rank(lhs.type) > type_rank(rhs.type)
    /\ IsOrderedPtype(third) /\ ReqlTypeName(third) = ReqlTypeName(lhs)
    /\ cmp_out.ac.v = 1

-----------------------------------------------------------------------------
(* Primary keys: print_primary applied to lhs and rhs, and their cmp under
   v1_16_is_latest *)

KeyNums == {Num(D_negone), Num(D_negzero), Num(D_zero), Num(D_one), Num(D_two)}
KeyStrs ==
    {Str(s) : s \in SeqsUpTo(Alphabet, MaxStrLen)}
    \cup {Str(Rep(97, MAX_PRIMARY_KEY_SIZE - 2) \o <<98>>),
          Str(Rep(97, MAX_PRIMARY_KEY_SIZE - 1)),
          Str(Rep(97, MAX_PRIMARY_KEY_SIZE)),
          Str(Rep(97, MAX_KEY_SIZE + 50))}
KeyBinaries ==
    {Binary(<<>>), Binary(<<0>>), Binary(<<1>>), Binary(<<2>>), Binary(<<0, 2>>),
     Binary(<<1, 0>>), Binary(key_a),
     Binary(Rep(0, 60)), Binary(Rep(0, 61)),
     Binary(Rep(97, MAX_PRIMARY_KEY_SIZE - 8)),
     Binary(Rep(97, MAX_PRIMARY_KEY_SIZE - 7))}
KeyElems == {Num(D_one), Str(key_a), Binary(<<0>>), Arr(<<>>)}
KeyArrays ==
    {Arr(e) : e \in SeqsUpTo(KeyElems, MaxKeyArrLen)}
    \cup {Arr(<<Null>>), Arr(<<Bool(TRUE), Obj(<<>>)>>),
          Arr(<<Str(Rep(97, MAX_PRIMARY_KEY_SIZE - 3))>>),
          Arr(<<Str(Rep(97, MAX_PRIMARY_KEY_SIZE - 2))>>),
          Arr(<<Str(Rep(97, MAX_KEY_SIZE + 50)), Num(D_one)>>)}
KeyObjects ==
    {Obj(<<>>), Obj(<<Pair(key_a, Num(D_one))>>), Time(D_zero), Time(D_one),
     Geometry(D_zero), GroupedData}

KeyDatums ==
    {Null, Bool(FALSE), Bool(TRUE)} \cup KeyNums \cup KeyStrs \cup KeyBinaries
    \cup KeyArrays \cup KeyObjects

InitKey ==
    /\ pc = "key_start"
    /\ lhs \in KeyDatums
    /\ rhs \in KeyDatums
    /\ third = None
    /\ reql_version = "v1_16_is_latest"
    /\ cmp_out = None
    /\ key_out = None /\ dx = None /\ dy = None /\ hex_out = None
    /\ secondary = None /\ primary = None /\ tag_num = None
    /\ composed = None /\ components = None /\ truncated = None
    /\ ret = None /\ conditions = None /\ array_size_limit = None
    /\ map = None /\ vector = None

PrintPrimary ==
    /\ pc = "key_start"
    /\ key_out' = [a |-> print_primary(lhs), b |-> print_primary(rhs)]
    /\ pc' = "key_printed"
    /\ UNCHANGED <<lhs, rhs, third, reql_version, cmp_out, dx, dy, hex_out,
                   secondary, primary, tag_num, composed, components, truncated>>
    /\ UNCHANGED builder_vars

CompareKeyed ==
    /\ pc = "key_printed"
    /\ cmp_out' = [ab |-> cmp(reql_version, lhs, rhs)]
    /\ pc' = "key_compared"
    /\ UNCHANGED <<lhs, rhs, third, reql_version, key_out, dx, dy, hex_out,
                   secondary, primary, tag_num, composed, components, truncated>>
    /\ UNCHANGED builder_vars

NextKey == PrintPrimary \/ CompareKeyed

SpecKey == InitKey /\ [][NextKey]_vars

\* NUM, STR, BOOL, BINARY, and ARRAY of those
RECURSIVE IsPlainKeyDatum(_)
IsPlainKeyDatum(d) ==
    \/ d.type \in {"R_NUM", "R_STR", "R_BOOL", "R_BINARY"}
    \/ /\ d.type = "R_ARRAY"
       /\ \A i \in 1..Len(d.r_array) : IsPlainKeyDatum(d.r_array[i])

\* C1: for two datums print_primary accepts (NUM, STR, BOOL, BINARY, ARRAY
\* of those), the sign of the bytewise comparison of their primary keys is
\* the sign of cmp under v1_16_is_latest, pairs of different variants and
\* numerically equal numbers included.
C1_PrimaryKeyOrderIsCmp ==
    (/\ pc = "key_compared"
     /\ IsPlainKeyDatum(lhs) /\ IsPlainKeyDatum(rhs)
     /\ key_out.a.st = "ok" /\ key_out.b.st = "ok")
        => /\ cmp_out.ab.st = "ok"
           /\ BytesCompare(key_out.a.v, key_out.b.v) = Sign(cmp_out.ab.v)

\* C10: print_primary never returns a string longer than
\* MAX_PRIMARY_KEY_SIZE: it fails with GENERIC when the encoding is longer,
\* and with a GENERIC type error for NULL and for an OBJECT that is not a
\* pseudotype.
C10_PrimaryKeyBounded ==
    pc = "key_printed" =>
        \A x \in {<<lhs, key_out.a>>, <<rhs, key_out.b>>} :
            LET d == x[1]
                r == x[2]
                enc == datum_to_str_key(d)
            IN  /\ r.st = "ok" => (Len(r.v) <= MAX_PRIMARY_KEY_SIZE /\ r.v = enc.v)
                /\ (enc.st = "ok" /\ Len(enc.v) > MAX_PRIMARY_KEY_SIZE) => r.st = "GENERIC"
                /\ (enc.st = "ok" /\ Len(enc.v) <= MAX_PRIMARY_KEY_SIZE) => r.st = "ok"
                /\ d.type = "R_NULL" => r.st = "GENERIC"
                /\ (d.type = "R_OBJECT" /\ ~is_ptype(d)) => r.st = "GENERIC"

\* a string whose key is one byte too long is refused, one that just fits is
\* returned
C10_Witness ==
    /\ pc = "key_printed"
    /\ lhs.type = "R_STR" /\ Len(lhs.r_str) = MAX_PRIMARY_KEY_SIZE
    /\ key_out.a.st = "GENERIC"
    /\ rhs.type = "R_STR" /\ Len(rhs.r_str) = MAX_PRIMARY_KEY_SIZE - 1
    /\ key_out.b.st = "ok" /\ Len(key_out.b.v) = MAX_PRIMARY_KEY_SIZE

-----------------------------------------------------------------------------
(* Numbers: the hex part of num_to_str_key for two doubles *)

ExpSamples == {0, 1, 1022, 1023, 1024, 2046}
MantSamples == {Zero13, Rep(0, 12) \o <<1>>, <<8>> \o Rep(0, 12), Rep(15, 13)}
FiniteDoubles == {Dbl(s, e, m) : s \in {0, 1}, e \in ExpSamples, m \in MantSamples}

InitNum ==
    /\ pc = "num_start"
    /\ dx \in FiniteDoubles
    /\ dy \in FiniteDoubles
    /\ hex_out = None
    /\ lhs = None /\ rhs = None /\ third = None /\ reql_version = None
    /\ cmp_out = None /\ key_out = None
    /\ secondary = None /\ primary = None /\ tag_num = None
    /\ composed = None /\ components = None /\ truncated = None
    /\ ret = None /\ conditions = None /\ array_size_limit = None
    /\ map = None /\ vector = None

NumToStrKey ==
    /\ pc = "num_start"
    /\ hex_out' = [x |-> mangle_double(dx), y |-> mangle_double(dy)]
    /\ pc' = "num_encoded"
    /\ UNCHANGED <<lhs, rhs, third, reql_version, cmp_out, key_out, dx, dy,
                   secondary, primary, tag_num, composed, components, truncated>>
    /\ UNCHANGED builder_vars

NextNum == NumToStrKey

SpecNum == InitNum /\ [][NextNum]_vars

\* C5: for all finite doubles a and b, the 16 hex digits num_to_str_key
\* writes after 'N' compare bytewise exactly as a and b compare numerically:
\* smaller for a < b, identical for a == b.
C5_HexOrderIsNumericOrder ==
    pc = "num_encoded" =>
        /\ risfinite(dx) /\ risfinite(dy)
        /\ Len(hex_out.x) = 16 /\ Len(hex_out.y) = 16
        /\ BytesCompare(hex_out.x, hex_out.y) = derived_cmp_num(dx, dy)

-----------------------------------------------------------------------------
(* Secondary keys: compose_secondary on a secondary string, or print_secondary
   on a datum, then parse_secondary or key_is_truncated on the key *)

\* n bytes that differ by position, NUL bytes among them
SecondaryBytes(n) == [i \in 1..n |-> (i * 7 + 83) % 256]
PkBytes(n) == [i \in 1..n |-> 112 + (i % 16)]
pk_string == <<112, 107>>
abc_string == <<97, 98, 99>>

RawSecondary(s) == [kind |-> "raw", s |-> s, d |-> Null]
DatumSecondary(d) == [kind |-> "datum", s |-> <<>>, d |-> d]

SecStrings == {SecondaryBytes(n) : n \in 0..MaxSecondaryLen}
SecDatums ==
    {Str(abc_string), Str(Rep(97, MAX_KEY_SIZE)), Num(D_one), Bool(TRUE),
     Binary(<<0, 1>>), Arr(<<Str(key_a), Num(D_negzero)>>), Time(D_one),
     Null, Obj(<<>>),
     Str(Rep(97, 110)), Str(Rep(97, 111)), Str(Rep(97, 112)),
     Binary(Rep(0, 60)), Arr(<<Str(Rep(97, 109))>>),
     Arr(<<Str(Rep(97, MAX_KEY_SIZE - 10)), Binary(<<98>>), Bool(TRUE)>>)}
SecPrimaries ==
    {PkBytes(n) : n \in 0..MaxShortPk}
    \cup {pk_string, PkBytes(MAX_PRIMARY_KEY_SIZE - 1),
          PkBytes(MAX_PRIMARY_KEY_SIZE), PkBytes(MAX_PRIMARY_KEY_SIZE + 1)}
SecTags == {NoTag, Tag(0), Tag(7), Tag(16909060)}

InitSec ==
    /\ pc = "sec_start"
    /\ secondary \in {RawSecondary(s) : s \in SecStrings}
                     \cup {DatumSecondary(d) : d \in SecDatums}
    /\ primary \in SecPrimaries
    /\ tag_num \in SecTags
    /\ reql_version \in Versions
    /\ composed = None /\ components = None /\ truncated = None
    /\ ret = None /\ conditions = None /\ array_size_limit = None
    /\ map = None /\ vector = None
    /\ lhs = None /\ rhs = None /\ third = None
    /\ cmp_out = None /\ key_out = None
    /\ dx = None /\ dy = None /\ hex_out = None

ComposeSecondary ==
    /\ pc = "sec_start"
    /\ secondary.kind = "raw"
    /\ composed' = compose_secondary(secondary.s, primary, tag_num)
    /\ pc' = "sec_composed"
    /\ UNCHANGED <<lhs, rhs, third, reql_version, cmp_out, key_out, dx, dy,
                   hex_out, secondary, primary, tag_num, components, truncated>>
    /\ UNCHANGED builder_vars

PrintSecondary ==
    /\ pc = "sec_start"
    /\ secondary.kind = "datum"
    /\ composed' = print_secondary(reql_version, secondary.d, primary, tag_num)
    /\ pc' = "sec_composed"
    /\ UNCHANGED <<lhs, rhs, third, reql_version, cmp_out, key_out, dx, dy,
                   hex_out, secondary, primary, tag_num, components, truncated>>
    /\ UNCHANGED builder_vars

\* extract_all on the key
ParseSecondary ==
    /\ pc = "sec_composed"
    /\ composed.st = "ok"
    /\ components' = parse_secondary(composed.v)
    /\ pc' = "sec_parsed"
    /\ UNCHANGED <<lhs, rhs, third, reql_version, cmp_out, key_out, dx, dy,
                   hex_out, secondary, primary, tag_num, composed, truncated>>
    /\ UNCHANGED builder_vars

KeyIsTruncated ==
    /\ pc = "sec_composed"
    /\ composed.st = "ok"
    /\ truncated' = key_is_truncated(composed.v)
    /\ pc' = "sec_truncation_checked"
    /\ UNCHANGED <<lhs, rhs, third, reql_version, cmp_out, key_out, dx, dy,
                   hex_out, secondary, primary, tag_num, composed, components>>
    /\ UNCHANGED builder_vars

\* truncated_secondary() of the datum whose index entry was written
TruncatedSecondary ==
    /\ pc = "sec_composed"
    /\ secondary.kind = "datum"
    /\ key_out' = truncated_secondary(secondary.d)
    /\ pc' = "sec_searched"
    /\ UNCHANGED <<lhs, rhs, third, reql_version, cmp_out, dx, dy, hex_out,
                   secondary, primary, tag_num, composed, components, truncated>>
    /\ UNCHANGED builder_vars

NextSec ==
    \/ ComposeSecondary \/ PrintSecondary \/ ParseSecondary \/ KeyIsTruncated
    \/ TruncatedSecondary

SpecSec == InitSec /\ [][NextSec]_vars

\* the first min(|s|, MAX_KEY_SIZE - |p| - 8 - 2) bytes of s
STruncated(s, p) == SubSeq(s, 1, Min2(Len(s), MAX_KEY_SIZE - Len(p) - 8 - 2))
\* the 8 bytes of the tag, least significant first; nothing without a tag
TagBytes(t) ==
    IF t.has
    THEN <<t.v % 256, (t.v \div 256) % 256, (t.v \div 65536) % 256,
           t.v \div 16777216, 0, 0, 0, 0>>
    ELSE <<>>

\* C6: for a secondary string s, a primary key p of at most
\* MAX_PRIMARY_KEY_SIZE bytes and an optional tag t, compose_secondary
\* returns S_truncated, p, the 8 tag bytes when t is given, and the two bytes
\* pk_off = |S_truncated| and tag_off = pk_off + |p|; the result is at most
\* MAX_KEY_SIZE bytes long and no guarantee of mangle_secondary fails.
C6_ComposeSecondaryLayout ==
    (/\ pc = "sec_composed"
     /\ secondary.kind = "raw"
     /\ Len(primary) <= MAX_PRIMARY_KEY_SIZE)
        => LET S == STruncated(secondary.s, primary)
           IN  /\ composed.st = "ok"
               /\ composed.v = S \o primary \o TagBytes(tag_num)
                                 \o <<Len(S), Len(S) + Len(primary)>>
               /\ Len(composed.v) <= MAX_KEY_SIZE

\* a secondary string that loses bytes, composed with a tag and the longest
\* primary key into a key of exactly MAX_KEY_SIZE bytes
C6_Witness ==
    /\ pc = "sec_composed"
    /\ secondary.kind = "raw"
    /\ Len(primary) = MAX_PRIMARY_KEY_SIZE
    /\ tag_num.has
    /\ Len(secondary.s) > Len(STruncated(secondary.s, primary))
    /\ composed.st = "ok"
    /\ Len(composed.v) = MAX_KEY_SIZE

\* C7: for a secondary string s, a primary key p compose_secondary accepts
\* (the empty one included) and an optional tag t (0 included),
\* parse_secondary of compose_secondary(s, p, t) completes without a failed
\* guarantee and returns exactly (S_truncated, p, t), the tag absent iff t
\* was absent.
C7_ParseInvertsCompose ==
    (pc = "sec_parsed" /\ secondary.kind = "raw")
        => /\ components.st = "ok"
           /\ components.secondary = STruncated(secondary.s, primary)
           /\ components.primary = primary
           /\ components.tag_num = tag_num

abc_pk_7_claimed ==
    <<83, 97, 98, 99, 0, 112, 107, 7, 0, 0, 0, 0, 0, 0, 0, 0, 4, 6>>
abc_pk_7_composed ==
    <<83, 97, 98, 99, 0, 112, 107, 7, 0, 0, 0, 0, 0, 0, 0, 5, 7>>

IsAbcPk7 ==
    /\ secondary = DatumSecondary(Str(abc_string))
    /\ primary = pk_string
    /\ tag_num = Tag(7)
    /\ reql_version \in {"v1_14", "v1_16_is_latest"}

\* C8: print_secondary under v1_14 or v1_16_is_latest for STR("abc"),
\* primary key "pk" and tag 7 yields the 18 bytes
\* 53 61 62 63 00 70 6b 07 00 00 00 00 00 00 00 00 04 06, the two offset
\* bytes being 4 and 6.
C8_AbcPk7_AsClaimed ==
    (pc = "sec_composed" /\ IsAbcPk7)
        => composed.st = "ok" /\ composed.v = abc_pk_7_claimed

\* C8, amended: print_secondary under v1_14 or v1_16_is_latest for
\* STR("abc"), primary key "pk" and tag 7 yields the 17 bytes
\* 53 61 62 63 00 70 6b 07 00 00 00 00 00 00 00 05 07: the NUL terminator is
\* part of the secondary string, so the offset bytes are 5 and 7, and the
\* tag is 8 bytes.
C8_AbcPk7 ==
    (pc = "sec_composed" /\ IsAbcPk7)
        => /\ composed.st = "ok"
           /\ composed.v = abc_pk_7_composed
           /\ Len(composed.v) = 17
           /\ composed.v[16] = 5 /\ composed.v[17] = 7

C8_Witness ==
    /\ pc = "sec_composed"
    /\ IsAbcPk7
    /\ reql_version = "v1_14"
    /\ composed.st = "ok"

\* C9: key_is_truncated(k) is true exactly when k has MAX_KEY_SIZE bytes and
\* carries a tag, or MAX_KEY_SIZE - 8 bytes and no tag; so whenever
\* compose_secondary drops a byte of the secondary string, key_is_truncated
\* of the key it returns is true.
C9_KeyIsTruncated ==
    (pc = "sec_truncation_checked" /\ secondary.kind = "raw")
        => /\ truncated.st = "ok"
           /\ truncated.v = (\/ tag_num.has /\ Len(composed.v) = MAX_KEY_SIZE
                             \/ ~tag_num.has /\ Len(composed.v) = MAX_KEY_SIZE - 8)
           /\ Len(secondary.s) > Len(STruncated(secondary.s, primary))
                  => truncated.v = TRUE

-----------------------------------------------------------------------------
(* Object builder: std::map<datum_string_t, datum_t> as the sequence of its
   pairs in ascending key order *)

\* std::map::find: the 1-based position of key, 0 when absent
map_find(m, key) ==
    LET hits == {i \in 1..Len(m) : m[i].first = key}
    IN  IF hits = {} THEN 0 ELSE CHOOSE i \in hits : TRUE

\* std::map::insert: nothing changes when the key is present
map_insert(m, key, val) ==
    IF map_find(m, key) # 0 THEN m
    ELSE LET below == {i \in 1..Len(m) : str_compare(m[i].first, key) < 0}
             n == Cardinality(below)
         IN  SubSeq(m, 1, n) \o <<Pair(key, val)>> \o SubSeq(m, n + 1, Len(m))

\* map[key] = val
map_assign(m, key, val) ==
    IF map_find(m, key) # 0
    THEN [m EXCEPT ![map_find(m, key)] = Pair(key, val)]
    ELSE map_insert(m, key, val)

\* std::map::erase(key)
map_erase(m, key) ==
    IF map_find(m, key) = 0 THEN m
    ELSE SubSeq(m, 1, map_find(m, key) - 1) \o SubSeq(m, map_find(m, key) + 1, Len(m))

\* datum_object_builder_t::try_get
try_get(m, key) == IF map_find(m, key) = 0 THEN Uninit ELSE m[map_find(m, key)].second

\* check_str_validity: a NUL byte raises GENERIC
check_str_validity(s) == \A i \in 1..Len(s) : s[i] # 0

\* The builder calls return [st, map, v]: the outcome, the map after the
\* call and the returned bool.
BuilderRet(st, m, v) == [st |-> st, map |-> m, v |-> v]

builder_add_always_inserts(m, key, val) ==
    IF ~check_str_validity(key) THEN BuilderRet("GENERIC", m, FALSE)
    ELSE IF ~has(val) THEN BuilderRet("abort", m, FALSE)
    ELSE BuilderRet("ok", map_assign(m, key, val), map_find(m, key) # 0)
builder_add(m, key, val) ==
    IF ~check_str_validity(key) THEN BuilderRet("GENERIC", m, FALSE)
    ELSE IF ~has(val) THEN BuilderRet("abort", m, FALSE)
    ELSE BuilderRet("ok", map_insert(m, key, val), map_find(m, key) # 0)

builder_overwrite(m, key, val) ==
    IF ~check_str_validity(key) THEN BuilderRet("GENERIC", m, FALSE)
    ELSE IF ~has(val) THEN BuilderRet("abort", m, FALSE)
    ELSE BuilderRet("ok", map_assign(m, key, val), FALSE)

builder_delete_field(m, key) ==
    BuilderRet("ok", map_erase(m, key), map_find(m, key) # 0)

\* datum_object_builder_t(const datum_t &copy_from)
builder_copy_from(d) == d.r_object

-----------------------------------------------------------------------------
(* Pseudotype sanitization of a newly constructed OBJECT *)

data_key == <<100, 97, 116, 97>>

\* pseudo::sanitize_time: epoch_time must be a NUM and timezone, when
\* present, a STR; a valid TIME is kept as it is
sanitize_time(d) ==
    LET e == get_field(d, epoch_time_key)
        z == get_field(d, <<116, 105, 109, 101, 122, 111, 110, 101>>)
    IN  IF e.type = "R_NUM" /\ z.type \in {"R_STR", "UNINITIALIZED"}
        THEN Ok(d) ELSE Fail("GENERIC")

\* pseudo::sanitize_geometry: the shape carrier is kept as it is
sanitize_geometry(d) == Ok(d)

\* pseudo::rcheck_literal_valid: no field besides $reql_type$ and value
rcheck_literal_valid(d) ==
    \A i \in 1..Len(d.r_object) :
        d.r_object[i].first \in {reql_type_string, value_key}

\* the 6-bit value of a base64 character, -1 for any other byte
b64_value(c) ==
    IF c >= 65 /\ c <= 90 THEN c - 65
    ELSE IF c >= 97 /\ c <= 122 THEN c - 71
    ELSE IF c >= 48 /\ c <= 57 THEN c + 4
    ELSE IF c = 43 THEN 62
    ELSE IF c = 47 THEN 63
    ELSE -1

\* the bytes of one group of 2, 3 or 4 six-bit values
b64_group(q) ==
    <<q[1] * 4 + (q[2] \div 16)>>
    \o (IF Len(q) >= 3 THEN <<(q[2] % 16) * 16 + (q[3] \div 4)>> ELSE <<>>)
    \o (IF Len(q) = 4 THEN <<(q[3] % 4) * 64 + q[4]>> ELSE <<>>)

RECURSIVE b64_groups(_, _)
b64_groups(q, lo) ==
    IF lo > Len(q) THEN <<>>
    ELSE b64_group(SubSeq(q, lo, Min2(lo + 3, Len(q)))) \o b64_groups(q, lo + 4)

\* pseudo::decode_base64_ptype: the bytes the base64 text of the data field
\* stands for
decode_base64_ptype(d) ==
    LET unpadded(q) ==
            IF \E i \in 1..Len(q) : q[i] < 0 THEN Fail("GENERIC")
            ELSE IF Len(q) % 4 = 1 THEN Fail("GENERIC")
            ELSE Ok(b64_groups(q, 1))
        decode(s) ==
            LET pad == IF Len(s) >= 2 /\ s[Len(s)] = 61 /\ s[Len(s) - 1] = 61 THEN 2
                       ELSE IF Len(s) >= 1 /\ s[Len(s)] = 61 THEN 1 ELSE 0
            IN  unpadded([i \in 1..(Len(s) - pad) |-> b64_value(s[i])])
        data(f) == IF f.type # "R_STR" THEN Fail("GENERIC") ELSE decode(f.r_str)
    IN  data(get_field(d, data_key))

\* allowed_pts: the set of pseudotype names the caller permits
maybe_sanitize_ptype_allows_literal(d, allowed_pts) ==
    LET binary(b) == IF b.st # "ok" THEN b ELSE Ok(Binary(b.v))
        by_type(s) ==
            IF s.st # "ok" THEN s
            ELSE IF s.v = time_string THEN sanitize_time(d)
            ELSE IF s.v = literal_string THEN Ok(d)
            ELSE IF s.v = geometry_string THEN sanitize_geometry(d)
            ELSE IF s.v = binary_string THEN binary(decode_base64_ptype(d))
            ELSE Fail("GENERIC")
    IN  IF ~is_ptype(d) THEN Ok(d) ELSE by_type(get_reql_type(d))

maybe_sanitize_ptype(d, allowed_pts) ==
    LET binary(b) == IF b.st # "ok" THEN b ELSE Ok(Binary(b.v))
        by_type(s) ==
            IF s.st # "ok" THEN s
            ELSE IF s.v = time_string THEN sanitize_time(d)
            ELSE IF s.v = literal_string
            THEN (IF literal_string \notin allowed_pts THEN Fail("GENERIC")
                  ELSE IF ~rcheck_literal_valid(d) THEN Fail("GENERIC")
                  ELSE Ok(d))
            ELSE IF s.v = geometry_string THEN sanitize_geometry(d)
            ELSE IF s.v = binary_string THEN binary(decode_base64_ptype(d))
            ELSE Fail("GENERIC")
    IN  IF ~is_ptype(d) THEN Ok(d) ELSE by_type(get_reql_type(d))

\* datum_t(std::map &&, allowed_pts)
datum_from_map(m, allowed_pts) == maybe_sanitize_ptype(Obj(m), allowed_pts)

\* datum_object_builder_t::to_datum(): no pseudotype is permitted
builder_to_datum(m) == datum_from_map(m, {})

-----------------------------------------------------------------------------
(* merge and drop_literals *)

\* is_ptype(reql_type): [st, v]
is_ptype_named(d, reql_type) ==
    LET named(r) == IF r.st # "ok" THEN r ELSE Ok(r.v = reql_type)
    IN  IF ~is_ptype(d) THEN Ok(FALSE) ELSE named(get_reql_type(d))

\* The result of drop_literals: [st, v, lit], lit being
\* *encountered_literal_out
Dropped(st, v, lit) == [st |-> st, v |-> v, lit |-> lit]

RECURSIVE drop_literals(_)
RECURSIVE drop_obj_loop(_, _, _, _)
RECURSIVE drop_arr_loop(_, _, _, _)

\* the loop over the pairs of an OBJECT from index i (0-based):
\* [st, need_to_copy, builder]
drop_obj_loop(d, i, need_to_copy, builder) ==
    IF i >= Len(d.r_object)
    THEN [st |-> "ok", need_to_copy |-> need_to_copy, builder |-> builder]
    ELSE LET pair == d.r_object[i + 1]
             added(copied, a) ==
                 IF a.st # "ok"
                 THEN [st |-> a.st, need_to_copy |-> TRUE, builder |-> copied]
                 ELSE IF a.v
                 THEN [st |-> "abort", need_to_copy |-> TRUE, builder |-> copied]
                 ELSE drop_obj_loop(d, i + 1, TRUE, a.map)
             dropped(val) ==
                 LET first_literal == val.lit /\ ~need_to_copy
                     \* copy everything up to now into the builder
                     copied == IF first_literal THEN SubSeq(d.r_object, 1, i)
                               ELSE builder
                     need == need_to_copy \/ val.lit
                 IN  IF val.st # "ok"
                     THEN [st |-> val.st, need_to_copy |-> need_to_copy,
                           builder |-> builder]
                     ELSE IF first_literal
                             /\ \E j \in 1..i : ~check_str_validity(d.r_object[j].first)
                     THEN [st |-> "GENERIC", need_to_copy |-> TRUE, builder |-> builder]
                     ELSE IF need /\ has(val.v)
                     THEN added(copied, builder_add(copied, pair.first, val.v))
                     ELSE drop_obj_loop(d, i + 1, need, copied)
         IN  dropped(drop_literals(pair.second))

\* the loop over the elements of an ARRAY: [st, need_to_copy, builder]
drop_arr_loop(d, i, need_to_copy, builder) ==
    IF i >= Len(d.r_array)
    THEN [st |-> "ok", need_to_copy |-> need_to_copy, builder |-> builder]
    ELSE LET dropped(val) ==
                 LET first_literal == val.lit /\ ~need_to_copy
                     copied == IF first_literal THEN SubSeq(d.r_array, 1, i)
                               ELSE builder
                     need == need_to_copy \/ val.lit
                 IN  IF val.st # "ok"
                     THEN [st |-> val.st, need_to_copy |-> need_to_copy,
                           builder |-> builder]
                     ELSE IF need /\ has(val.v)
                     THEN drop_arr_loop(d, i + 1, TRUE, Append(copied, val.v))
                     ELSE drop_arr_loop(d, i + 1, need, copied)
         IN  dropped(drop_literals(d.r_array[i + 1]))

\* the end of drop_literals: the copy when a literal was met, *this otherwise
drop_result_always_copied(d, need_to_copy, copied_result) ==
    Dropped("ok", copied_result, need_to_copy)
drop_result(d, need_to_copy, copied_result) ==
    IF need_to_copy THEN Dropped("ok", copied_result, TRUE)
    ELSE Dropped("ok", d, FALSE)

drop_literals(d) ==
    LET of_value(val, inner) ==
            IF ~has(val) THEN Dropped("ok", val, TRUE)
            ELSE IF inner.st # "ok" THEN inner
            \* nested literals: r_sanity_check(!encountered_literal)
            ELSE IF inner.lit THEN Dropped("abort", Uninit, TRUE)
            ELSE Dropped("ok", inner.v, TRUE)
        of_literal(val) ==
            of_value(val, IF has(val) THEN drop_literals(val)
                          ELSE Dropped("ok", val, TRUE))
        of_copy(l, copied_result) ==
            IF copied_result.st # "ok" THEN Dropped(copied_result.st, Uninit, FALSE)
            ELSE drop_result(d, l.need_to_copy, copied_result.v)
        of_object(l) ==
            IF l.st # "ok" THEN Dropped(l.st, Uninit, FALSE)
            ELSE of_copy(l, builder_to_datum(l.builder))
        of_array(l) ==
            IF l.st # "ok" THEN Dropped(l.st, Uninit, FALSE)
            ELSE drop_result(d, l.need_to_copy, Arr(l.builder))
        by_kind(is_literal) ==
            IF is_literal.st # "ok" THEN Dropped(is_literal.st, Uninit, FALSE)
            ELSE IF is_literal.v THEN of_literal(get_field(d, value_key))
            ELSE IF d.type = "R_OBJECT" THEN of_object(drop_obj_loop(d, 0, FALSE, <<>>))
            ELSE IF d.type = "R_ARRAY" THEN of_array(drop_arr_loop(d, 0, FALSE, <<>>))
            ELSE drop_result(d, FALSE, Uninit)
    IN  by_kind(is_ptype_named(d, literal_string))

\* the value merge stores for a pair of rhs that is not merged recursively
merge_value_keeps_literal(second, is_literal) == second
merge_value(second, is_literal) ==
    IF is_literal THEN get_field(second, value_key) ELSE second

RECURSIVE merge(_, _)
RECURSIVE merge_loop(_, _, _)

\* one turn of the loop of merge for pair i (0-based) of rhs, d being the
\* builder: [st, map]
merge_loop(rhs_d, i, d) ==
    IF i >= Len(rhs_d.r_object) THEN [st |-> "ok", map |-> d]
    ELSE LET pair == rhs_d.r_object[i + 1]
             stored(o) ==
                 IF o.st # "ok" THEN [st |-> o.st, map |-> d]
                 ELSE merge_loop(rhs_d, i + 1, o.map)
             merged(sub) ==
                 IF sub.st # "ok" THEN [st |-> sub.st, map |-> d]
                 ELSE stored(builder_overwrite(d, pair.first, sub.v))
             replaced(is_literal, dropped) ==
                 IF dropped.st # "ok" THEN [st |-> dropped.st, map |-> d]
                 \* r_sanity_check(!encountered_literal || !is_literal)
                 ELSE IF dropped.lit /\ is_literal THEN [st |-> "abort", map |-> d]
                 ELSE IF has(dropped.v)
                 THEN stored(builder_overwrite(d, pair.first, dropped.v))
                 \* r_sanity_check(is_literal)
                 ELSE IF ~is_literal THEN [st |-> "abort", map |-> d]
                 ELSE stored(builder_delete_field(d, pair.first))
             overwritten(is_literal, val) ==
                 replaced(is_literal, IF has(val) THEN drop_literals(val)
                                      ELSE Dropped("ok", val, FALSE))
             one_pair(sub_lhs, is_literal) ==
                 IF is_literal.st # "ok" THEN [st |-> is_literal.st, map |-> d]
                 ELSE IF pair.second.type = "R_OBJECT" /\ has(sub_lhs) /\ ~is_literal.v
                 THEN merged(merge(sub_lhs, pair.second))
                 ELSE overwritten(is_literal.v, merge_value(pair.second, is_literal.v))
         IN  one_pair(try_get(d, pair.first),
                      is_ptype_named(pair.second, literal_string))

merge(lhs_d, rhs_d) ==
    LET built(l) == IF l.st # "ok" THEN Fail(l.st) ELSE builder_to_datum(l.map)
    IN  IF lhs_d.type # "R_OBJECT" \/ rhs_d.type # "R_OBJECT" THEN Ok(rhs_d)
        ELSE built(merge_loop(rhs_d, 0, builder_copy_from(lhs_d)))

-----------------------------------------------------------------------------
(* Small integers as doubles, for the sums and counters of the builders *)

\* floor(log2(n)) for 1 <= n < 32
floor_log2(n) == CHOOSE e \in 0..4 : 2^e <= n /\ n < 2^(e + 1)

\* static_cast<double>(n) for |n| < 32: the mantissa of such a number lies
\* in the first of the 13 mantissa digits and the top bit of the second
DblOfInt(n) ==
    IF n = 0 THEN D_zero
    ELSE LET a == IF n < 0 THEN -n ELSE n
             e == floor_log2(a)
             frac32 == (a - 2^e) * 2^(5 - e)
         IN  Dbl(IF n < 0 THEN 1 ELSE 0, 1023 + e,
                 <<frac32 \div 2, (frac32 % 2) * 8>> \o Rep(0, 11))

SmallInts == -31..31
\* static_cast<int>(d) of a double DblOfInt made: 2^e plus the mantissa bits
\* above the binary point
IntOfDbl(u) ==
    IF DblIsZero(u) THEN 0
    ELSE LET e == (u[1] % 8) * 256 + u[2] * 16 + u[3] - 1023
             frac32 == u[4] * 2 + (u[5] \div 8)
             a == 2^e + (frac32 \div 2^(5 - e))
         IN  IF DblSignBit(u) THEN -a ELSE a

\* l + r on doubles that hold small integers; the sum of two such doubles is
\* exact
dbl_add(x, y) == DblOfInt(IntOfDbl(x) + IntOfDbl(y))

-----------------------------------------------------------------------------
(* Array builder and stats_merge *)

\* rcheck_array_size / rcheck_array_size_datum: the array may not be longer
\* than the limit
rcheck_array_size(arr, limit) == Len(arr) <= limit

\* The array builder calls return [st, vector]: the outcome and the vector
\* after the call.
ArrayRet(st, vec) == [st |-> st, vector |-> vec]

array_builder_add_unchecked(vec, val, limit) == ArrayRet("ok", Append(vec, val))
array_builder_add(vec, val, limit) ==
    LET pushed == Append(vec, val)
    IN  IF rcheck_array_size(pushed, limit) THEN ArrayRet("ok", pushed)
        ELSE ArrayRet("GENERIC", pushed)

\* datum_array_builder_t::to_datum: the constructor that checks no size
array_builder_to_datum(vec) == Arr(vec)

\* "Too many changes, array truncated to %zu."
too_many_changes(limit) == <<"Too many changes, array truncated to", limit>>

\* for (i = 0; i < sz; ++i) arr.add(items.get(i))
RECURSIVE stats_add_all(_, _, _, _)
stats_add_all(items, i, vec, limit) ==
    IF i < Len(items)
    THEN LET a == array_builder_add(vec, items[i + 1], limit)
         IN  IF a.st # "ok" THEN a ELSE stats_add_all(items, i + 1, a.vector, limit)
    ELSE ArrayRet("ok", vec)

\* for (i = 0; i < sz && so_far < limit; ++i, ++so_far) arr.add(items.get(i))
RECURSIVE stats_add_loop(_, _, _, _)
stats_add_loop_unbounded(items, i, vec, limit) == stats_add_all(items, i, vec, limit)
stats_add_loop(items, i, vec, limit) ==
    IF i < Len(items) /\ Len(vec) < limit
    THEN LET a == array_builder_add(vec, items[i + 1], limit)
         IN  IF a.st # "ok" THEN a ELSE stats_add_loop(items, i + 1, a.vector, limit)
    ELSE ArrayRet("ok", vec)

\* [st, v, conditions]: the outcome, the datum returned and *conditions
StatsRet(st, v, conds) == [st |-> st, v |-> v, conditions |-> conds]

stats_merge(l, r, limit, conds) ==
    IF l.type = "R_NUM" /\ r.type = "R_NUM"
    THEN LET sum == dbl_add(l.r_num, r.r_num)
         IN  IF risfinite(sum) THEN StatsRet("ok", Num(sum), conds)
             ELSE StatsRet("GENERIC", Uninit, conds)
    ELSE IF l.type = "R_ARRAY" /\ r.type = "R_ARRAY"
    THEN IF Len(l.r_array) + Len(r.r_array) > limit
         THEN LET c == conds \cup {too_many_changes(limit)}
                  a1 == stats_add_loop(l.r_array, 0, <<>>, limit)
                  a2 == stats_add_loop(r.r_array, 0, a1.vector, limit)
              IN  IF a1.st # "ok" THEN StatsRet(a1.st, Uninit, c)
                  ELSE IF a2.st # "ok" THEN StatsRet(a2.st, Uninit, c)
                  ELSE StatsRet("ok", array_builder_to_datum(a2.vector), c)
         ELSE LET a1 == stats_add_all(l.r_array, 0, <<>>, limit)
                  a2 == stats_add_all(r.r_array, 0, a1.vector, limit)
              IN  IF a1.st # "ok" THEN StatsRet(a1.st, Uninit, conds)
                  ELSE IF a2.st # "ok" THEN StatsRet(a2.st, Uninit, conds)
                  ELSE StatsRet("ok", array_builder_to_datum(a2.vector), conds)
    ELSE IF l.type = "R_STR" /\ r.type = "R_STR" THEN StatsRet("ok", l, conds)
    ELSE StatsRet("GENERIC", Uninit, conds)

-----------------------------------------------------------------------------
(* merge and stats_merge applied to lhs and rhs *)

\* largest array_size_limit of the runs
MaxLimit == 3

LiteralNoValue == Obj(<<Pair(reql_type_string, Str(literal_string))>>)
N(n) == Num(DblOfInt(n))

MergeValues ==
    {N(1), N(2), N(20), Null, Str(key_a), Arr(<<N(1)>>),
     Obj(<<Pair(key_b, N(1))>>)}
\* objects without a literal
MergePlainObjects ==
    {Obj(<<>>), Obj(<<Pair(key_a, N(1))>>),
     Obj(<<Pair(key_a, N(1)), Pair(key_b, N(2))>>),
     Obj(<<Pair(key_a, Obj(<<Pair(key_b, N(1))>>))>>),
     Obj(<<Pair(key_a, Obj(<<Pair(key_a, N(1)), Pair(key_b, N(2))>>)),
           Pair(key_b, Arr(<<N(1), Obj(<<Pair(key_a, Null)>>)>>))>>),
     Obj(<<Pair(key_a, Time(D_one)), Pair(key_b, Str(key_a))>>),
     Obj(<<Pair(key_b, Arr(<<N(1), N(2)>>))>>)}
\* the objects passed to merge or update: literals at the top level of a
\* field, or below it
MergeLiteralObjects ==
    {Obj(<<Pair(k, Literal(v))>>) : k \in {key_a, key_b}, v \in MergeValues}
    \cup {Obj(<<Pair(k, LiteralNoValue)>>) : k \in {key_a, key_b}}
    \cup {Obj(<<Pair(key_a, Obj(<<Pair(key_b, Literal(N(2)))>>))>>),
          Obj(<<Pair(key_a, Obj(<<Pair(key_b, LiteralNoValue)>>))>>),
          Obj(<<Pair(key_a, Arr(<<N(1), Literal(N(2))>>))>>),
          Obj(<<Pair(key_a, N(1)), Pair(key_b, Obj(<<Pair(key_a, Literal(N(2)))>>))>>)}
StatsDatums ==
    {Arr(<<>>), Arr(<<N(1)>>), Arr(<<N(1), N(2)>>), Arr(<<Str(key_a), Null, N(1)>>),
     Str(key_a), Str(key_b), N(1), N(2), N(-1), N(0), Null, Bool(TRUE), Binary(key_a)}
MergeDatums == MergePlainObjects \cup MergeLiteralObjects \cup StatsDatums

InitMerge ==
    /\ pc = "merge_start"
    \* the stored side holds no literal
    /\ lhs \in MergePlainObjects \cup StatsDatums
    /\ rhs \in MergeDatums
    /\ array_size_limit \in 0..MaxLimit
    /\ conditions = {}
    /\ ret = None
    /\ third = None /\ reql_version = None /\ cmp_out = None
    /\ key_out = None /\ dx = None /\ dy = None /\ hex_out = None
    /\ secondary = None /\ primary = None /\ tag_num = None
    /\ composed = None /\ components = None /\ truncated = None
    /\ map = None /\ vector = None

Merge ==
    /\ pc = "merge_start"
    /\ LET returned(m) == ret' = [op |-> "merge", st |-> m.st, v |-> m.v]
       IN  returned(merge(lhs, rhs))
    /\ pc' = "merge_done"
    /\ UNCHANGED <<lhs, rhs, third, reql_version, cmp_out, key_vars, conditions,
                   array_size_limit, map, vector>>

StatsMerge ==
    /\ pc = "merge_start"
    /\ LET returned(s) ==
               /\ ret' = [op |-> "stats_merge", st |-> s.st, v |-> s.v]
               /\ conditions' = s.conditions
       IN  returned(stats_merge(lhs, rhs, array_size_limit, conditions))
    /\ pc' = "merge_done"
    /\ UNCHANGED <<lhs, rhs, third, reql_version, cmp_out, key_vars,
                   array_size_limit, map, vector>>

NextMerge == Merge \/ StatsMerge

SpecMerge == InitMerge /\ [][NextMerge]_vars


ObjKeys(d) == {d.r_object[i].first : i \in 1..Len(d.r_object)}

IsLiteral(d) ==
    /\ d.type = "R_OBJECT"
    /\ get_field(d, reql_type_string) = Str(literal_string)

\* a LITERAL pseudotype at some depth of d
RECURSIVE HasLiteral(_)
HasLiteral(d) ==
    \/ IsLiteral(d)
    \/ \E i \in 1..Len(d.r_object) : HasLiteral(d.r_object[i].second)
    \/ \E i \in 1..Len(d.r_array) : HasLiteral(d.r_array[i])

\* rhs is {k: LITERAL ...} for one key k
IsOneLiteralField(d) ==
    d.type = "R_OBJECT" /\ Len(d.r_object) = 1 /\ IsLiteral(d.r_object[1].second)

\* C11: for an OBJECT x, a key k and a value v, merge(x, {k: LITERAL with
\* value v})[k] is v, and merge(x, {k: LITERAL without value}) has no field
\* k; every other field of x is unchanged.
C11_MergeLiteral ==
    (/\ pc = "merge_done" /\ ret.op = "merge"
     /\ lhs.type = "R_OBJECT" /\ ~is_ptype(lhs)
     /\ IsOneLiteralField(rhs))
        => LET k == rhs.r_object[1].first
               v == get_field(rhs.r_object[1].second, value_key)
           IN  /\ ret.st = "ok"
               /\ ret.v.type = "R_OBJECT"
               /\ get_field(ret.v, k) = v
               /\ ObjKeys(ret.v) = IF has(v) THEN ObjKeys(lhs) \cup {k}
                                   ELSE ObjKeys(lhs) \ {k}
               /\ \A j \in ObjKeys(lhs) \ {k} : get_field(ret.v, j) = get_field(lhs, j)

\* merge({a:1,b:2}, {b: literal(20)}) = {a:1,b:20}
C11_Witness ==
    /\ pc = "merge_done" /\ ret.op = "merge"
    /\ lhs = Obj(<<Pair(key_a, N(1)), Pair(key_b, N(2))>>)
    /\ rhs = Obj(<<Pair(key_b, Literal(N(20)))>>)
    /\ ret.st = "ok"
    /\ ret.v = Obj(<<Pair(key_a, N(1)), Pair(key_b, N(20))>>)

\* C12: for an OBJECT x with no LITERAL pseudotype at any depth,
\* merge(x, x) = x.
C12_MergeIdempotent ==
    (/\ pc = "merge_done" /\ ret.op = "merge"
     /\ lhs.type = "R_OBJECT" /\ rhs = lhs /\ ~HasLiteral(lhs))
        => ret.st = "ok" /\ ret.v = lhs

\* an object with a nested object, an array and two fields merged with itself
C12_Witness ==
    /\ pc = "merge_done" /\ ret.op = "merge"
    /\ lhs.type = "R_OBJECT" /\ rhs = lhs
    /\ Len(lhs.r_object) = 2
    /\ lhs.r_object[1].second.type = "R_OBJECT"
    /\ lhs.r_object[2].second.type = "R_ARRAY"
    /\ ret.st = "ok"

\* C13: in merge(lhs, rhs) of two OBJECTs, for every key k of rhs such that
\* lhs[k] and rhs[k] are not both OBJECTs, field k of the result is
\* drop_literals(rhs[k]); no LITERAL nested in rhs[k] survives in the result.
C13_MergeDropsLiterals ==
    (/\ pc = "merge_done" /\ ret.op = "merge"
     /\ lhs.type = "R_OBJECT" /\ rhs.type = "R_OBJECT")
        => \A k \in ObjKeys(rhs) :
              ~(get_field(lhs, k).type = "R_OBJECT" /\ get_field(rhs, k).type = "R_OBJECT")
                  => /\ ret.st = "ok"
                     /\ drop_literals(get_field(rhs, k)).st = "ok"
                     /\ get_field(ret.v, k) = drop_literals(get_field(rhs, k)).v
                     /\ ~HasLiteral(get_field(ret.v, k))


\* C14: stats_merge(l, r) is l + r for two NUMs and l for two STRs; for two
\* ARRAYs it is the first min(|l| + |r|, array_size_limit) elements of l
\* followed by r, with a condition string added exactly when
\* |l| + |r| > array_size_limit; every other pair of variants fails with
\* GENERIC.
C14_StatsMerge ==
    (pc = "merge_done" /\ ret.op = "stats_merge") =>
        IF lhs.type = "R_NUM" /\ rhs.type = "R_NUM"
        THEN /\ ret.st = "ok" /\ ret.v.type = "R_NUM"
             /\ IntOfDbl(ret.v.r_num) = IntOfDbl(lhs.r_num) + IntOfDbl(rhs.r_num)
             /\ conditions = {}
        ELSE IF lhs.type = "R_STR" /\ rhs.type = "R_STR"
        THEN ret.st = "ok" /\ ret.v = lhs /\ conditions = {}
        ELSE IF lhs.type = "R_ARRAY" /\ rhs.type = "R_ARRAY"
        THEN LET both == lhs.r_array \o rhs.r_array
             IN  /\ ret.st = "ok"
                 /\ ret.v = Arr(SubSeq(both, 1, Min2(Len(both), array_size_limit)))
                 /\ Cardinality(conditions)
                        = (IF Len(both) > array_size_limit THEN 1 ELSE 0)
        ELSE ret.st = "GENERIC" /\ conditions = {}

\* two arrays of 2 and 3 elements under a limit of 3: the two of l and the
\* first of r, and one condition
C14_Witness ==
    /\ pc = "merge_done" /\ ret.op = "stats_merge"
    /\ lhs.type = "R_ARRAY" /\ Len(lhs.r_array) = 2
    /\ rhs.type = "R_ARRAY" /\ Len(rhs.r_array) = 3
    /\ array_size_limit = 3
    /\ ret.st = "ok" /\ Len(ret.v.r_array) = 3
    /\ ret.v.r_array[3] = rhs.r_array[1]
    /\ Cardinality(conditions) = 1


-----------------------------------------------------------------------------
(* datum_object_builder_t: add_warning and add_error *)

errors_field == <<101, 114, 114, 111, 114, 115>>
first_error_field == <<102, 105, 114, 115, 116, 95, 101, 114, 114, 111, 114>>
warnings_field == <<119, 97, 114, 110, 105, 110, 103, 115>>

\* &map[key]: operator[] default-constructs the entry of an absent key
map_entry(m, key) == IF map_find(m, key) # 0 THEN m ELSE map_insert(m, key, Uninit)

\* datum_array_builder_t(const datum_t &copy_from, limits)
array_builder_copy_from(d, limit) ==
    IF d.type # "R_ARRAY" THEN ArrayRet("GENERIC", <<>>)
    ELSE IF rcheck_array_size(d.r_array, limit) THEN ArrayRet("ok", d.r_array)
    ELSE ArrayRet("GENERIC", d.r_array)

\* for (i = 0; i < sz; ++i) if (warnings_entry->get(i).as_str() == msg) return;
RECURSIVE warning_loop(_, _, _)
warning_loop(arr, i, msg) ==
    IF i >= Len(arr) THEN "absent"
    ELSE IF arr[i + 1].type # "R_STR" THEN "GENERIC"
    ELSE IF arr[i + 1].r_str = msg THEN "present"
    ELSE warning_loop(arr, i + 1, msg)

builder_add_warning_no_dedup(m, msg, limit) ==
    LET m1 == map_entry(m, warnings_field)
        warnings_entry == try_get(m1, warnings_field)
        old == IF has(warnings_entry) THEN warnings_entry.r_array ELSE <<>>
        a == array_builder_add(old, Str(msg), limit)
    IN  IF a.st # "ok" THEN BuilderRet(a.st, m1, FALSE)
        ELSE BuilderRet("ok", map_assign(m1, warnings_field,
                                         array_builder_to_datum(a.vector)), FALSE)
builder_add_warning(m, msg, limit) ==
    LET m1 == map_entry(m, warnings_field)
        warnings_entry == try_get(m1, warnings_field)
    IN  IF has(warnings_entry)
        THEN IF warnings_entry.type # "R_ARRAY" THEN BuilderRet("GENERIC", m1, FALSE)
             ELSE
             LET warnings_entry_sz == Len(warnings_entry.r_array)
                 seen == warning_loop(warnings_entry.r_array, 0, msg)
                 out == array_builder_copy_from(warnings_entry, limit)
                 a == array_builder_add(out.vector, Str(msg), limit)
             IN  IF seen = "present" THEN BuilderRet("ok", m1, FALSE)
                 ELSE IF seen = "GENERIC" THEN BuilderRet("GENERIC", m1, FALSE)
                 ELSE IF ~(warnings_entry_sz + 1 <= limit)
                 THEN BuilderRet("GENERIC", m1, FALSE)
                 ELSE IF out.st # "ok" THEN BuilderRet(out.st, m1, FALSE)
                 ELSE IF a.st # "ok" THEN BuilderRet(a.st, m1, FALSE)
                 ELSE BuilderRet("ok", map_assign(m1, warnings_field,
                                     array_builder_to_datum(a.vector)), FALSE)
        ELSE LET a == array_builder_add(<<>>, Str(msg), limit)
             IN  IF a.st # "ok" THEN BuilderRet(a.st, m1, FALSE)
                 ELSE BuilderRet("ok", map_assign(m1, warnings_field,
                                     array_builder_to_datum(a.vector)), FALSE)

builder_add_error_sets_first_error(m, msg) ==
    LET m1 == map_entry(m, errors_field)
        errors_entry == try_get(m1, errors_field)
        ecount == dbl_add(IF has(errors_entry) THEN errors_entry.r_num
                          ELSE DblOfInt(0), DblOfInt(1))
    IN  BuilderRet("ok", map_assign(map_assign(m1, errors_field, Num(ecount)),
                                    first_error_field, Str(msg)), FALSE)
builder_add_error(m, msg) ==
    LET m1 == map_entry(m, errors_field)
        errors_entry == try_get(m1, errors_field)
    IN  IF has(errors_entry) /\ errors_entry.type # "R_NUM"
        THEN BuilderRet("GENERIC", m1, FALSE)
        ELSE LET ecount == dbl_add(IF has(errors_entry) THEN errors_entry.r_num
                                   ELSE DblOfInt(0), DblOfInt(1))
                 m2 == map_assign(m1, errors_field, Num(ecount))
             IN  BuilderRet("ok", map_insert(m2, first_error_field, Str(msg)), FALSE)

-----------------------------------------------------------------------------
(* A datum_object_builder_t under a sequence of calls *)

\* add_error is called at most this many times
MaxErrors == 2

key_nul == <<97, 0>>
BuilderKeys == {key_a, key_b, key_nul}
BuilderValues == {N(1), N(2)}
Messages == {<<109, 49>>, <<109, 50>>, <<109, 51>>}

InitObj ==
    /\ pc = "builder"
    /\ map \in {<<>>, builder_copy_from(Obj(<<Pair(key_a, N(2))>>))}
    /\ array_size_limit \in {0, MaxLimit - 1}
    /\ ret = [op |-> "none", st |-> "ok", v |-> FALSE]
    /\ lhs = None /\ rhs = None /\ conditions = None /\ vector = None
    /\ third = None /\ reql_version = None /\ cmp_out = None
    /\ key_out = None /\ dx = None /\ dy = None /\ hex_out = None
    /\ secondary = None /\ primary = None /\ tag_num = None
    /\ composed = None /\ components = None /\ truncated = None

obj_unchanged ==
    <<pc, lhs, rhs, third, reql_version, cmp_out, key_vars, conditions,
      array_size_limit, vector>>

Add(key, val) ==
    /\ pc = "builder"
    /\ LET r == builder_add(map, key, val)
       IN  map' = r.map /\ ret' = [op |-> "add", st |-> r.st, v |-> r.v]
    /\ UNCHANGED obj_unchanged

Overwrite(key, val) ==
    /\ pc = "builder"
    /\ LET r == builder_overwrite(map, key, val)
       IN  map' = r.map /\ ret' = [op |-> "overwrite", st |-> r.st, v |-> r.v]
    /\ UNCHANGED obj_unchanged

DeleteField(key) ==
    /\ pc = "builder"
    /\ LET r == builder_delete_field(map, key)
       IN  map' = r.map /\ ret' = [op |-> "delete_field", st |-> r.st, v |-> r.v]
    /\ UNCHANGED obj_unchanged

AddWarning(msg) ==
    /\ pc = "builder"
    /\ LET r == builder_add_warning(map, msg, array_size_limit)
       IN  map' = r.map /\ ret' = [op |-> "add_warning", st |-> r.st, v |-> r.v]
    /\ UNCHANGED obj_unchanged

AddError(msg) ==
    /\ pc = "builder"
    /\ IF has(try_get(map, errors_field))
       THEN IntOfDbl(try_get(map, errors_field).r_num) < MaxErrors
       ELSE TRUE
    /\ LET r == builder_add_error(map, msg)
       IN  map' = r.map /\ ret' = [op |-> "add_error", st |-> r.st, v |-> r.v]
    /\ UNCHANGED obj_unchanged

NextObj ==
    \/ \E key \in BuilderKeys, val \in BuilderValues : Add(key, val)
    \/ \E key \in BuilderKeys, val \in BuilderValues : Overwrite(key, val)
    \/ \E key \in BuilderKeys : DeleteField(key)
    \/ \E msg \in Messages : AddWarning(msg)
    \/ \E msg \in Messages : AddError(msg)

SpecObj == InitObj /\ [][NextObj]_vars


-----------------------------------------------------------------------------
(* Claims about the object builder *)

\* the key/value map a builder holds, as a function
RefMap(m) ==
    [k \in {m[i].first : i \in 1..Len(m)} |->
        (CHOOSE p \in {m[i] : i \in 1..Len(m)} : p.first = k).second]
RefKeys(m) == DOMAIN RefMap(m)
RefWithout(f, key) == [k \in (DOMAIN f) \ {key} |-> f[k]]
RefWith(f, key, val) == [k \in (DOMAIN f) \cup {key} |-> IF k = key THEN val ELSE f[k]]
KeysDistinct(m) == \A i, j \in 1..Len(m) : m[i].first = m[j].first => i = j

\* C15: every add, overwrite and delete_field call takes the builder's map to
\* the one a reference map reaches: add(k, v) inserts only when k is absent
\* and returns true iff k was present, overwrite(k, v) sets k to v,
\* delete_field(k) removes k and returns true iff k was present.
C15_BuilderRefinesMap ==
    [][\A key \in BuilderKeys, val \in BuilderValues :
        /\ (Add(key, val) /\ ret'.st = "ok") =>
              /\ KeysDistinct(map')
              /\ RefMap(map') = (IF key \in RefKeys(map) THEN RefMap(map)
                                 ELSE RefWith(RefMap(map), key, val))
              /\ ret'.v = (key \in RefKeys(map))
        /\ (Overwrite(key, val) /\ ret'.st = "ok") =>
              /\ KeysDistinct(map')
              /\ RefMap(map') = RefWith(RefMap(map), key, val)
        /\ DeleteField(key) =>
              /\ KeysDistinct(map')
              /\ RefMap(map') = RefWithout(RefMap(map), key)
              /\ ret'.v = (key \in RefKeys(map))]_vars

\* an add of a key that is present: true is returned and the old value stays
C15_Witness ==
    /\ pc = "builder"
    /\ ret.op = "add" /\ ret.st = "ok" /\ ret.v = TRUE
    /\ try_get(map, key_a) = N(2) /\ try_get(map, key_b) = N(1)

\* the messages of the "warnings" array of a map, none when there is no array
WarningsOf(m) ==
    IF has(try_get(m, warnings_field)) THEN try_get(m, warnings_field).r_array
    ELSE <<>>

\* C16: the "warnings" array holds distinct messages, never more than
\* array_size_limit of them; add_warning of a message that is present changes
\* nothing and succeeds, add_warning of a new message appends it at the end,
\* or fails with GENERIC when the array would exceed array_size_limit.
C16_AddWarning ==
    /\ [](pc = "builder" =>
            /\ Len(WarningsOf(map)) <= array_size_limit
            /\ \A i, j \in 1..Len(WarningsOf(map)) :
                  WarningsOf(map)[i] = WarningsOf(map)[j] => i = j)
    /\ [][\A msg \in Messages : AddWarning(msg) =>
            IF \E i \in 1..Len(WarningsOf(map)) : WarningsOf(map)[i] = Str(msg)
            THEN ret'.st = "ok" /\ map' = map
            ELSE IF Len(WarningsOf(map)) + 1 > array_size_limit
            THEN ret'.st = "GENERIC" /\ WarningsOf(map') = WarningsOf(map)
            ELSE /\ ret'.st = "ok"
                 /\ WarningsOf(map') = Append(WarningsOf(map), Str(msg))]_vars

\* the array is full and a further new message was refused
C16_Witness ==
    /\ pc = "builder"
    /\ ret.op = "add_warning" /\ ret.st = "GENERIC"
    /\ array_size_limit = 2 /\ Len(WarningsOf(map)) = 2

\* the number of add_error calls a map records
ErrorsOf(m) ==
    IF has(try_get(m, errors_field)) THEN IntOfDbl(try_get(m, errors_field).r_num)
    ELSE 0

\* C17: each add_error call adds one to "errors" (absent counting as 0), the
\* first call sets "first_error" to its message, and no call of any kind
\* changes "first_error" once it is set.
C17_AddError ==
    /\ [](pc = "builder" =>
            /\ has(try_get(map, errors_field)) = has(try_get(map, first_error_field))
            /\ has(try_get(map, errors_field)) =>
                  try_get(map, errors_field).type = "R_NUM" /\ ErrorsOf(map) >= 1)
    /\ [][\A msg \in Messages : AddError(msg) =>
            /\ ret'.st = "ok"
            /\ ErrorsOf(map') = ErrorsOf(map) + 1
            /\ try_get(map', errors_field) = N(ErrorsOf(map) + 1)
            /\ ErrorsOf(map) = 0 => try_get(map', first_error_field) = Str(msg)]_vars
    /\ [][has(try_get(map, first_error_field)) =>
            try_get(map', first_error_field) = try_get(map, first_error_field)]_vars

\* two calls were made
C17_Witness ==
    /\ pc = "builder"
    /\ ret.op = "add_error"
    /\ try_get(map, errors_field) = N(2)
    /\ try_get(map, first_error_field) = Str(<<109, 49>>)


-----------------------------------------------------------------------------
(* datum_array_builder_t and the array constructors *)

\* datum_t(std::vector<datum_t> &&, const configured_limits_t &)
array_ctor_no_check(elems, limit) == Ok(Arr(elems))
array_ctor(elems, limit) ==
    IF rcheck_array_size(elems, limit) THEN Ok(Arr(elems)) ELSE Fail("GENERIC")

\* vector.insert(vector.begin() + index, ...)
vector_insert(vec, index, items) ==
    SubSeq(vec, 1, index) \o items \o SubSeq(vec, index + 1, Len(vec))

\* the switch on reql_version after an insertion
insert_size_check(version, vec, limit) ==
    IF version = "v1_13" THEN ArrayRet("ok", vec)
    ELSE IF rcheck_array_size(vec, limit) THEN ArrayRet("ok", vec)
    ELSE ArrayRet("GENERIC", vec)

array_builder_change(vec, index, val) ==
    IF ~(index < Len(vec)) THEN ArrayRet("NON_EXISTENCE", vec)
    ELSE ArrayRet("ok", [vec EXCEPT ![index + 1] = val])

array_builder_insert_unchecked(version, vec, index, val, limit) ==
    IF ~(index <= Len(vec)) THEN ArrayRet("NON_EXISTENCE", vec)
    ELSE ArrayRet("ok", vector_insert(vec, index, <<val>>))
array_builder_insert(version, vec, index, val, limit) ==
    IF ~(index <= Len(vec)) THEN ArrayRet("NON_EXISTENCE", vec)
    ELSE insert_size_check(version, vector_insert(vec, index, <<val>>), limit)

array_builder_splice(version, vec, index, values, limit) ==
    IF ~(index <= Len(vec)) THEN ArrayRet("NON_EXISTENCE", vec)
    \* values.arr_size() on a datum that is no array
    ELSE IF values.type # "R_ARRAY" THEN ArrayRet("GENERIC", vec)
    ELSE insert_size_check(version, vector_insert(vec, index, values.r_array), limit)

-----------------------------------------------------------------------------
(* A datum_array_builder_t under a sequence of calls *)

\* the builder's vector is never made longer than this
MaxVecLen == MaxLimit + 1

ArrValues == {N(1), N(2)}
SpliceValues == {Arr(<<>>), Arr(<<N(1)>>), Arr(<<N(2), N(1)>>), N(1)}
ArrIndexes == 0..MaxVecLen

InitArr ==
    /\ pc = "array_builder"
    /\ vector = <<>>
    /\ array_size_limit \in 0..MaxLimit
    /\ reql_version \in Versions
    /\ ret = [op |-> "none", st |-> "ok", v |-> Null]
    /\ lhs = None /\ rhs = None /\ conditions = None /\ map = None
    /\ third = None /\ cmp_out = None
    /\ key_out = None /\ dx = None /\ dy = None /\ hex_out = None
    /\ secondary = None /\ primary = None /\ tag_num = None
    /\ composed = None /\ components = None /\ truncated = None

arr_unchanged ==
    <<lhs, rhs, third, reql_version, cmp_out, key_vars, conditions,
      array_size_limit, map>>

ArrAdd(val) ==
    /\ pc = "array_builder" /\ Len(vector) < MaxVecLen
    /\ LET r == array_builder_add(vector, val, array_size_limit)
       IN  vector' = r.vector /\ ret' = [op |-> "add", st |-> r.st, v |-> Null]
    /\ UNCHANGED <<pc, arr_unchanged>>

Change(index, val) ==
    /\ pc = "array_builder"
    /\ LET r == array_builder_change(vector, index, val)
       IN  vector' = r.vector /\ ret' = [op |-> "change", st |-> r.st, v |-> Null]
    /\ UNCHANGED <<pc, arr_unchanged>>

Insert(index, val) ==
    /\ pc = "array_builder" /\ Len(vector) < MaxVecLen
    /\ LET r == array_builder_insert(reql_version, vector, index, val,
                                     array_size_limit)
       IN  vector' = r.vector /\ ret' = [op |-> "insert", st |-> r.st, v |-> Null]
    /\ UNCHANGED <<pc, arr_unchanged>>

Splice(index, values) ==
    /\ pc = "array_builder"
    /\ values.type = "R_ARRAY" => Len(vector) + Len(values.r_array) <= MaxVecLen
    /\ LET r == array_builder_splice(reql_version, vector, index, values,
                                     array_size_limit)
       IN  vector' = r.vector /\ ret' = [op |-> "splice", st |-> r.st, v |-> Null]
    /\ UNCHANGED <<pc, arr_unchanged>>

\* std::move(builder).to_datum(): the builder is used up
ToDatum ==
    /\ pc = "array_builder"
    /\ ret' = [op |-> "to_datum", st |-> "ok", v |-> array_builder_to_datum(vector)]
    /\ pc' = "array_done"
    /\ UNCHANGED <<vector, arr_unchanged>>

\* datum_t(std::move(elems), limits) on the elements collected
Construct ==
    /\ pc = "array_builder"
    /\ LET r == array_ctor(vector, array_size_limit)
       IN  ret' = [op |-> "array", st |-> r.st,
                   v |-> IF r.st = "ok" THEN r.v ELSE Null]
    /\ pc' = "array_done"
    /\ UNCHANGED <<vector, arr_unchanged>>

NextArr ==
    \/ \E val \in ArrValues : ArrAdd(val)
    \/ \E index \in ArrIndexes, val \in ArrValues : Change(index, val)
    \/ \E index \in ArrIndexes, val \in ArrValues : Insert(index, val)
    \/ \E index \in ArrIndexes, values \in SpliceValues : Splice(index, values)
    \/ ToDatum
    \/ Construct

SpecArr == InitArr /\ [][NextArr]_vars


-----------------------------------------------------------------------------
(* Claims about the array builder and the array constructor *)

\* what add, change and to_datum do in every version
ArrCommonSteps ==
    \A index \in ArrIndexes, val \in ArrValues :
        /\ ArrAdd(val) =>
              ret'.st = (IF Len(vector) + 1 <= array_size_limit THEN "ok"
                         ELSE "GENERIC")
        /\ (Change(index, val) /\ index < Len(vector)) => ret'.st = "ok"
        /\ ToDatum => ret'.st = "ok" /\ ret'.v = Arr(vector)

-----------------------------------------------------------------------------
(* Accessors *)

\* the four bits of a hex digit, most significant first
NibbleBits(n) == <<n \div 8, (n \div 4) % 2, (n \div 2) % 2, n % 2>>
\* the 52 mantissa bits of a double
MantissaBits(u) ==
    [i \in 1..52 |-> NibbleBits(u[4 + ((i - 1) \div 4)])[1 + ((i - 1) % 4)]]
\* the 13 hex digits of 52 bits
BitsNibbles(b) ==
    [k \in 1..13 |-> 8 * b[4 * k - 3] + 4 * b[4 * k - 2] + 2 * b[4 * k - 1] + b[4 * k]]
\* the unbiased exponent of a normal double
DblExponent(u) == (u[1] % 8) * 256 + u[2] * 16 + u[3] - 1023
DblLessEq(x, y) == DblLess(x, y) \/ DblEq(x, y)

\* -2^53 and 2^53
min_dbl_int == Dbl(1, 1023 + 53, Zero13)
max_dbl_int == Dbl(0, 1023 + 53, Zero13)

\* An int64_t as sign and magnitude: the binary digits from the leading 1,
\* none for 0.
Int64(neg, bits) == [neg |-> neg, bits |-> bits]

\* int64_t i = d: the integer part of d, for |d| <= 2^62
dbl_to_int64(d) ==
    IF DblIsZero(d) \/ DblExponent(d) < 0 THEN Int64(FALSE, <<>>)
    ELSE LET e == DblExponent(d)
             sig == <<1>> \o MantissaBits(d)
         IN  Int64(DblSignBit(d),
                   IF e <= 52 THEN SubSeq(sig, 1, e + 1) ELSE sig \o Rep(0, e - 52))

\* static_cast<double>(i) for an i of at most 53 significant bits
int64_to_dbl(i) ==
    IF i.bits = <<>> THEN D_zero
    ELSE Dbl(IF i.neg THEN 1 ELSE 0, 1023 + Len(i.bits) - 1,
             BitsNibbles(SubSeq(Tail(i.bits) \o Rep(0, 52), 1, 52)))

\* [ok, i]: the return value and *i_out
number_as_integer_no_range(d) ==
    LET i == dbl_to_int64(d)
    IN  IF DblEq(int64_to_dbl(i), d) THEN [ok |-> TRUE, i |-> i]
        ELSE [ok |-> FALSE, i |-> Int64(FALSE, <<>>)]
number_as_integer(d) ==
    IF DblLessEq(min_dbl_int, d) /\ DblLessEq(d, max_dbl_int)
    THEN LET i == dbl_to_int64(d)
         IN  IF DblEq(int64_to_dbl(i), d) THEN [ok |-> TRUE, i |-> i]
             ELSE [ok |-> FALSE, i |-> Int64(FALSE, <<>>)]
    ELSE [ok |-> FALSE, i |-> Int64(FALSE, <<>>)]

checked_convert_to_int(d) ==
    IF number_as_integer(d).ok THEN Ok(number_as_integer(d).i) ELSE Fail("GENERIC")

\* check_type: rcheck_typed_target raises the type error
check_type(d, desired) == d.type = desired

as_bool(d) == IF d.type = "R_BOOL" THEN Ok(d.r_bool) ELSE Ok(d.type # "R_NULL")
as_num(d) == IF check_type(d, "R_NUM") THEN Ok(d.r_num) ELSE Fail("GENERIC")
as_int(d) ==
    IF as_num(d).st # "ok" THEN as_num(d) ELSE checked_convert_to_int(as_num(d).v)
as_binary(d) == IF check_type(d, "R_BINARY") THEN Ok(d.r_str) ELSE Fail("GENERIC")
as_str(d) == IF check_type(d, "R_STR") THEN Ok(d.r_str) ELSE Fail("GENERIC")

-----------------------------------------------------------------------------
(* The accessors applied to a datum *)

\* The numbers of the runs: the double, whether it is an integer of
\* [-2^53, 2^53], and that integer.
NumSample(d, int, i) == [d |-> d, int |-> int, i |-> i]
NoInt == Int64(FALSE, <<>>)
NumSamples ==
    {NumSample(D_zero, TRUE, Int64(FALSE, <<>>)),
     NumSample(D_negzero, TRUE, Int64(FALSE, <<>>)),
     NumSample(D_one, TRUE, Int64(FALSE, <<1>>)),
     NumSample(D_negone, TRUE, Int64(TRUE, <<1>>)),
     NumSample(D_two, TRUE, Int64(FALSE, <<1, 0>>)),
     \* 3, 5 and -6
     NumSample(Dbl(0, 1024, <<8>> \o Rep(0, 12)), TRUE, Int64(FALSE, <<1, 1>>)),
     NumSample(Dbl(0, 1025, <<4>> \o Rep(0, 12)), TRUE, Int64(FALSE, <<1, 0, 1>>)),
     NumSample(Dbl(1, 1025, <<8>> \o Rep(0, 12)), TRUE, Int64(TRUE, <<1, 1, 0>>)),
     \* 0.5, 1.5, -2.25 and the smallest normal double
     NumSample(Dbl(0, 1022, Zero13), FALSE, NoInt),
     NumSample(Dbl(0, 1023, <<8>> \o Rep(0, 12)), FALSE, NoInt),
     NumSample(Dbl(1, 1024, <<2>> \o Rep(0, 12)), FALSE, NoInt),
     NumSample(Dbl(0, 1, Zero13), FALSE, NoInt),
     \* 2^51 + 0.5 and 2^52 + 1
     NumSample(Dbl(0, 1074, Rep(0, 12) \o <<1>>), FALSE, NoInt),
     NumSample(Dbl(0, 1075, Rep(0, 12) \o <<1>>), TRUE,
               Int64(FALSE, <<1>> \o Rep(0, 51) \o <<1>>)),
     \* 2^53 - 1, 2^53 and -2^53
     NumSample(Dbl(0, 1075, Rep(15, 13)), TRUE, Int64(FALSE, Rep(1, 53))),
     NumSample(Dbl(0, 1076, Zero13), TRUE, Int64(FALSE, <<1>> \o Rep(0, 53))),
     NumSample(Dbl(1, 1076, Zero13), TRUE, Int64(TRUE, <<1>> \o Rep(0, 53))),
     \* 2^53 + 2, -(2^53 + 2), 2^54 and 2^1023
     NumSample(Dbl(0, 1076, Rep(0, 12) \o <<1>>), FALSE, NoInt),
     NumSample(Dbl(1, 1076, Rep(0, 12) \o <<1>>), FALSE, NoInt),
     NumSample(Dbl(0, 1077, Zero13), FALSE, NoInt),
     NumSample(Dbl(0, 2046, Zero13), FALSE, NoInt)}

AccDatums ==
    {Num(s.d) : s \in NumSamples}
    \cup {Null, Bool(TRUE), Bool(FALSE), Str(<<>>), Str(key_a), Binary(key_a),
          Binary(<<>>), Arr(<<>>), Arr(<<N(1)>>), Obj(<<>>),
          Obj(<<Pair(key_a, Bool(FALSE))>>), Time(D_one)}

InitAcc ==
    /\ pc = "accessor_start"
    /\ lhs \in AccDatums
    /\ ret = [op |-> "none", st |-> "ok", v |-> None]
    /\ rhs = None /\ conditions = None /\ map = None /\ vector = None
    /\ array_size_limit = None
    /\ third = None /\ reql_version = None /\ cmp_out = None
    /\ key_out = None /\ dx = None /\ dy = None /\ hex_out = None
    /\ secondary = None /\ primary = None /\ tag_num = None
    /\ composed = None /\ components = None /\ truncated = None

\* the call of an accessor on lhs: the value returned or the error raised
Accessed(op, r) ==
    /\ pc = "accessor_start"
    /\ ret' = [op |-> op, st |-> r.st, v |-> IF r.st = "ok" THEN r.v ELSE None]
    /\ pc' = "accessor_done"
    /\ UNCHANGED <<lhs, rhs, third, reql_version, cmp_out, key_vars, conditions,
                   array_size_limit, map, vector>>

AsBool == Accessed("as_bool", as_bool(lhs))
AsNum == Accessed("as_num", as_num(lhs))
AsInt == Accessed("as_int", as_int(lhs))
AsBinary == Accessed("as_binary", as_binary(lhs))
AsStr == Accessed("as_str", as_str(lhs))

NextAcc == AsBool \/ AsNum \/ AsInt \/ AsBinary \/ AsStr

SpecAcc == InitAcc /\ [][NextAcc]_vars

\* what as_num, as_int, as_str and as_binary return or raise
AccessorOutcomes ==
    /\ ret.op = "as_num" =>
          IF lhs.type = "R_NUM" THEN ret.st = "ok" /\ ret.v = lhs.r_num
          ELSE ret.st = "GENERIC"
    /\ ret.op = "as_str" =>
          IF lhs.type = "R_STR" THEN ret.st = "ok" /\ ret.v = lhs.r_str
          ELSE ret.st = "GENERIC"
    /\ ret.op = "as_binary" =>
          IF lhs.type = "R_BINARY" THEN ret.st = "ok" /\ ret.v = lhs.r_str
          ELSE ret.st = "GENERIC"
    /\ ret.op = "as_int" =>
          IF lhs.type = "R_NUM"
          THEN LET s == CHOOSE s \in NumSamples : s.d = lhs.r_num
               IN  IF s.int THEN ret.st = "ok" /\ ret.v = s.i
                   ELSE ret.st = "GENERIC"
          ELSE ret.st = "GENERIC"

\* C20 as stated: each of as_bool, as_num, as_int, as_str and as_binary fails
\* with GENERIC on a datum of another variant and returns the stored value
\* otherwise; as_int fails with GENERIC unless the number is an integer of
\* [-2^53, 2^53].
C20_AccessorsFailOnWrongVariant ==
    pc = "accessor_done" =>
        /\ AccessorOutcomes
        /\ ret.op = "as_bool" =>
              IF lhs.type = "R_BOOL" THEN ret.st = "ok" /\ ret.v = lhs.r_bool
              ELSE ret.st = "GENERIC"

\* C20 amended: as_num, as_int, as_str and as_binary fail with GENERIC on a
\* datum of another variant and return the stored value otherwise, as_int
\* failing with GENERIC unless the number is an integer of [-2^53, 2^53];
\* as_bool never fails: it returns the stored value of a BOOL, false for NULL
\* and true for a datum of any other variant.
C20_AccessorsAsBoolTruthiness ==
    pc = "accessor_done" =>
        /\ AccessorOutcomes
        /\ ret.op = "as_bool" =>
              /\ ret.st = "ok"
              /\ ret.v = (IF lhs.type = "R_BOOL" THEN lhs.r_bool
                          ELSE lhs.type # "R_NULL")

\* as_int of 2^53 + 2 was refused
C20_Witness ==
    /\ pc = "accessor_done" /\ ret.op = "as_int" /\ ret.st = "GENERIC"
    /\ lhs = Num(Dbl(0, 1076, Rep(0, 12) \o <<1>>))

-----------------------------------------------------------------------------
(* get_field and get with a throw_bool_t *)

\* datum_t::get_field(key, throw_bool): [st, v]
get_field_throw(d, key, throw_bool) ==
    LET found(v) ==
            IF has(v) THEN Ok(v)
            ELSE IF throw_bool = "THROW" THEN Fail("NON_EXISTENCE")
            ELSE Ok(Uninit)
    \* obj_size() checks the type
    IN  IF d.type # "R_OBJECT" THEN Fail("GENERIC")
        ELSE found(get_field(d, key))

\* datum_t::get(index, throw_bool): [st, v]
get(d, index, throw_bool) ==
    \* arr_size() checks the type
    IF d.type # "R_ARRAY" THEN Fail("GENERIC")
    ELSE IF index < Len(d.r_array) THEN Ok(d.r_array[index + 1])
    ELSE IF throw_bool = "THROW" THEN Fail("NON_EXISTENCE")
    ELSE Ok(Uninit)

-----------------------------------------------------------------------------
(* get_field and get applied to an object or an array *)

key_ab == <<97, 98>>
key_c == <<99>>
\* the pairs the objects are made of, in ascending key order
GetPairs == <<Pair(key_a, N(1)), Pair(key_ab, Str(key_a)), Pair(key_b, Null),
              Pair(key_z, Arr(<<N(2)>>))>>
GetKeys == {GetPairs[i].first : i \in 1..Len(GetPairs)}
GetObjects ==
    {Obj(SelectSeq(GetPairs, LAMBDA p : p.first \in S)) : S \in SUBSET GetKeys}
GetArrays == {Arr(<<>>), Arr(<<N(1)>>), Arr(<<N(1), Null>>),
              Arr(<<Str(key_a), N(2), Obj(<<>>)>>)}
LookupKeys == GetKeys \cup {key_c, <<>>, <<97, 97>>}
ThrowBools == {"THROW", "NOTHROW"}

InitGet ==
    /\ pc = "get_start"
    /\ lhs \in GetObjects \cup GetArrays
    /\ ret = [op |-> "none", key |-> <<>>, index |-> 0, throw_bool |-> "NOTHROW",
              st |-> "ok", v |-> Uninit]
    /\ rhs = None /\ conditions = None /\ map = None /\ vector = None
    /\ array_size_limit = None
    /\ third = None /\ reql_version = None /\ cmp_out = None
    /\ key_out = None /\ dx = None /\ dy = None /\ hex_out = None
    /\ secondary = None /\ primary = None /\ tag_num = None
    /\ composed = None /\ components = None /\ truncated = None

get_unchanged ==
    <<lhs, rhs, third, reql_version, cmp_out, key_vars, conditions,
      array_size_limit, map, vector>>

GetField(key, throw_bool) ==
    /\ pc = "get_start"
    /\ LET returned(r) ==
               ret' = [op |-> "get_field", key |-> key, index |-> 0,
                       throw_bool |-> throw_bool, st |-> r.st,
                       v |-> IF r.st = "ok" THEN r.v ELSE Uninit]
       IN  returned(get_field_throw(lhs, key, throw_bool))
    /\ pc' = "get_done"
    /\ UNCHANGED get_unchanged

Get(index, throw_bool) ==
    /\ pc = "get_start"
    /\ LET returned(r) ==
               ret' = [op |-> "get", key |-> <<>>, index |-> index,
                       throw_bool |-> throw_bool, st |-> r.st,
                       v |-> IF r.st = "ok" THEN r.v ELSE Uninit]
       IN  returned(get(lhs, index, throw_bool))
    /\ pc' = "get_done"
    /\ UNCHANGED get_unchanged

NextGet ==
    \/ \E key \in LookupKeys, throw_bool \in ThrowBools : GetField(key, throw_bool)
    \/ \E index \in 0..4, throw_bool \in ThrowBools : Get(index, throw_bool)

SpecGet == InitGet /\ [][NextGet]_vars

\* what a miss gives: the sentinel under NOTHROW, NON_EXISTENCE under THROW
MissOutcome ==
    IF ret.throw_bool = "NOTHROW" THEN ret.st = "ok" /\ ret.v = Uninit
    ELSE ret.st = "NON_EXISTENCE"

\* C21: on an OBJECT with strictly ascending keys get_field(k, mode) returns
\* the value paired with k when k is a key, and on a miss the uninitialized
\* sentinel (NOTHROW) or NON_EXISTENCE (THROW); get(i, mode) returns element i
\* for i < arr_size and otherwise the sentinel or NON_EXISTENCE.
C21_GetFieldAndGet ==
    pc = "get_done" =>
        /\ (ret.op = "get_field" /\ lhs.type = "R_OBJECT") =>
              LET hits == {i \in 1..Len(lhs.r_object) :
                              lhs.r_object[i].first = ret.key}
              IN  IF hits # {}
                  THEN /\ ret.st = "ok"
                       /\ \E i \in hits : ret.v = lhs.r_object[i].second
                  ELSE MissOutcome
        /\ (ret.op = "get" /\ lhs.type = "R_ARRAY") =>
              IF ret.index < Len(lhs.r_array)
              THEN ret.st = "ok" /\ ret.v = lhs.r_array[ret.index + 1]
              ELSE MissOutcome

\* the last of four keys was found by the search
C21_Witness ==
    /\ pc = "get_done" /\ ret.op = "get_field" /\ ret.st = "ok"
    /\ lhs.type = "R_OBJECT" /\ Len(lhs.r_object) = 4
    /\ ret.key = key_z /\ ret.v = Arr(<<N(2)>>)

-----------------------------------------------------------------------------
(* The JSON and protobuf bridges: to_datum of a cJSON tree and of a Datum *)

\* utf8::is_valid: the bytes are well-formed UTF-8 (sequences of one to four
\* bytes, no overlong form, nothing above U+10FFFF)
RECURSIVE utf8_valid_from(_, _)
utf8_valid_from(s, i) ==
    LET cont(k) == k <= Len(s) /\ s[k] >= 128 /\ s[k] <= 191
        b == s[i]
    IN  IF i > Len(s) THEN TRUE
        ELSE IF b < 128 THEN utf8_valid_from(s, i + 1)
        ELSE IF b >= 194 /\ b <= 223
        THEN cont(i + 1) /\ utf8_valid_from(s, i + 2)
        ELSE IF b >= 224 /\ b <= 239
        THEN /\ cont(i + 1) /\ cont(i + 2)
             /\ (b = 224 => s[i + 1] >= 160)
             /\ (b = 237 => s[i + 1] <= 159)
             /\ utf8_valid_from(s, i + 3)
        ELSE IF b >= 240 /\ b <= 244
        THEN /\ cont(i + 1) /\ cont(i + 2) /\ cont(i + 3)
             /\ (b = 240 => s[i + 1] >= 144)
             /\ (b = 244 => s[i + 1] <= 143)
             /\ utf8_valid_from(s, i + 4)
        ELSE FALSE
utf8_is_valid(s) == utf8_valid_from(s, 1)

\* fail_if_invalid(reql_version, string): TRUE when it raises GENERIC
fail_if_invalid_never(version, string) == FALSE
fail_if_invalid(version, string) ==
    CASE version \in {"v1_13", "v1_14"} -> FALSE
      [] version = "v1_16_is_latest" -> ~utf8_is_valid(string)

\* a cJSON node; the items of an array or object carry their name in string
cJSON(t, d, s, items) ==
    [type |-> t, valuedouble |-> d, valuestring |-> s, child |-> items]
cJSON_item(name, json) == [string |-> name, item |-> json]

\* to_datum(cJSON json, limits, reql_version): [st, v]
RECURSIVE to_datum_json(_, _, _)
RECURSIVE json_array_loop(_, _, _, _, _)
json_array_loop(items, i, array, limit, version) ==
    IF i > Len(items) THEN array_ctor(array, limit)
    ELSE LET pushed(r) ==
                 IF r.st # "ok" THEN r
                 ELSE json_array_loop(items, i + 1, Append(array, r.v), limit,
                                      version)
         IN  pushed(to_datum_json(items[i].item, limit, version))
RECURSIVE json_object_loop(_, _, _, _, _)
json_object_loop(items, i, builder, limit, version) ==
    IF i > Len(items) THEN datum_from_map(builder, {literal_string})
    ELSE IF fail_if_invalid(version, items[i].string) THEN Fail("GENERIC")
    ELSE LET added(b) ==
                 IF b.st # "ok" THEN Fail(b.st)
                 ELSE IF b.v THEN Fail("GENERIC")
                 ELSE json_object_loop(items, i + 1, b.map, limit, version)
             converted(r) ==
                 IF r.st # "ok" THEN r
                 ELSE added(builder_add(builder, items[i].string, r.v))
         IN  converted(to_datum_json(items[i].item, limit, version))
to_datum_json(json, limit, version) ==
    CASE json.type = "cJSON_False" -> Ok(Bool(FALSE))
      [] json.type = "cJSON_True" -> Ok(Bool(TRUE))
      [] json.type = "cJSON_NULL" -> Ok(Null)
      [] json.type = "cJSON_Number" -> Ok(Num(json.valuedouble))
      [] json.type = "cJSON_String" ->
            IF fail_if_invalid(version, json.valuestring) THEN Fail("GENERIC")
            ELSE Ok(Str(json.valuestring))
      [] json.type = "cJSON_Array" ->
            json_array_loop(json.child, 1, <<>>, limit, version)
      [] json.type = "cJSON_Object" ->
            json_object_loop(json.child, 1, <<>>, limit, version)

\* a protobuf Datum and its Datum_AssocPair
Datum_AssocPair(k, v) == [key |-> k, val |-> v]

\* to_datum(const Datum d, limits, reql_version): [st, v]
RECURSIVE to_datum_pb(_, _, _)
RECURSIVE pb_array_loop(_, _, _, _, _)
pb_array_loop(d, i, out, limit, version) ==
    IF i > Len(d.r_array) THEN Ok(array_builder_to_datum(out))
    ELSE LET added(a) ==
                 IF a.st # "ok" THEN Fail(a.st)
                 ELSE pb_array_loop(d, i + 1, a.vector, limit, version)
             converted(r) ==
                 IF r.st # "ok" THEN r
                 ELSE added(array_builder_add(out, r.v, limit))
         IN  converted(to_datum_pb(d.r_array[i], limit, version))
RECURSIVE pb_object_loop(_, _, _, _, _)
pb_object_loop(d, i, m, limit, version) ==
    IF i > Len(d.r_object) THEN datum_from_map(m, {literal_string})
    ELSE LET ap == d.r_object[i]
             converted(r) ==
                 IF r.st # "ok" THEN r
                 ELSE IF map_find(m, ap.key) # 0 THEN Fail("GENERIC")
                 ELSE pb_object_loop(d, i + 1, map_insert(m, ap.key, r.v),
                                     limit, version)
         IN  IF ~check_str_validity(ap.key) THEN Fail("GENERIC")
             ELSE IF fail_if_invalid(version, ap.key) THEN Fail("GENERIC")
             ELSE converted(to_datum_pb(ap.val, limit, version))
to_datum_pb(d, limit, version) ==
    CASE d.type = "R_NULL" -> Ok(Null)
      [] d.type = "R_BOOL" -> Ok(Bool(d.r_bool))
      [] d.type = "R_NUM" -> Ok(Num(d.r_num))
      [] d.type = "R_STR" ->
            IF fail_if_invalid(version, d.r_str) THEN Fail("GENERIC")
            ELSE Ok(Str(d.r_str))
      [] d.type = "R_ARRAY" -> pb_array_loop(d, 1, <<>>, limit, version)
      [] d.type = "R_OBJECT" -> pb_object_loop(d, 1, <<>>, limit, version)

\* the strings and object keys of a datum, of a cJSON tree, of a protobuf Datum
RECURSIVE DatumStrings(_)
DatumStrings(d) ==
    CASE d.type = "R_STR" -> {d.r_str}
      [] d.type = "R_ARRAY" ->
            UNION {DatumStrings(d.r_array[i]) : i \in 1..Len(d.r_array)}
      [] d.type = "R_OBJECT" ->
            UNION {{d.r_object[i].first} \cup DatumStrings(d.r_object[i].second) :
                   i \in 1..Len(d.r_object)}
      [] OTHER -> {}
RECURSIVE JsonStrings(_)
JsonStrings(json) ==
    CASE json.type = "cJSON_String" -> {json.valuestring}
      [] json.type = "cJSON_Array" ->
            UNION {JsonStrings(json.child[i].item) : i \in 1..Len(json.child)}
      [] json.type = "cJSON_Object" ->
            UNION {{json.child[i].string} \cup JsonStrings(json.child[i].item) :
                   i \in 1..Len(json.child)}
      [] OTHER -> {}
RECURSIVE PbStrings(_)
PbStrings(d) ==
    CASE d.type = "R_STR" -> {d.r_str}
      [] d.type = "R_ARRAY" ->
            UNION {PbStrings(d.r_array[i]) : i \in 1..Len(d.r_array)}
      [] d.type = "R_OBJECT" ->
            UNION {{d.r_object[i].key} \cup PbStrings(d.r_object[i].val) :
                   i \in 1..Len(d.r_object)}
      [] OTHER -> {}

\* e-acute in two bytes; a lone 0xFF, a lead byte without its continuation, a
\* continuation byte without a lead, the overlong form of "/"
utf8_e_acute == <<195, 169>>
IllFormed == {<<255>>, <<195>>, <<97, 128>>, <<192, 175>>}
WireStrings == {key_a, key_b, utf8_e_acute} \cup IllFormed

JStr(s) == cJSON("cJSON_String", <<>>, s, <<>>)
JArr(items) == cJSON("cJSON_Array", <<>>, <<>>, items)
JObj(items) == cJSON("cJSON_Object", <<>>, <<>>, items)
JsonLeaves ==
    {JStr(s) : s \in WireStrings}
        \cup {cJSON("cJSON_NULL", <<>>, <<>>, <<>>),
              cJSON("cJSON_True", <<>>, <<>>, <<>>),
              cJSON("cJSON_False", <<>>, <<>>, <<>>),
              cJSON("cJSON_Number", DblOfInt(1), <<>>, <<>>)}
JsonTrees ==
    JsonLeaves
        \cup {JArr(<<cJSON_item(<<>>, x)>>) : x \in JsonLeaves}
        \cup {JArr(<<cJSON_item(<<>>, JStr(key_a)), cJSON_item(<<>>, JStr(s)),
                     cJSON_item(<<>>, JStr(key_b))>>) : s \in WireStrings}
        \cup {JObj(<<cJSON_item(k, JStr(s))>>) : k, s \in WireStrings}
        \cup {JObj(<<cJSON_item(key_a, JStr(key_b)), cJSON_item(k, JStr(key_a))>>) :
              k \in WireStrings}
        \cup {JObj(<<cJSON_item(key_b, JArr(<<cJSON_item(<<>>, JStr(s))>>))>>) :
              s \in WireStrings}

PbStr(s) == Datum("R_STR", FALSE, <<>>, s, <<>>, <<>>)
PbArr(elems) == Datum("R_ARRAY", FALSE, <<>>, <<>>, elems, <<>>)
PbObj(pairs) == Datum("R_OBJECT", FALSE, <<>>, <<>>, <<>>, pairs)
PbLeaves == {PbStr(s) : s \in WireStrings} \cup {Null, Bool(TRUE), N(1)}
PbTrees ==
    PbLeaves
        \cup {PbArr(<<x>>) : x \in PbLeaves}
        \cup {PbArr(<<PbStr(key_a), PbStr(s), PbStr(key_b)>>) : s \in WireStrings}
        \cup {PbObj(<<Datum_AssocPair(k, PbStr(s))>>) : k, s \in WireStrings \cup {key_nul}}
        \cup {PbObj(<<Datum_AssocPair(key_a, PbStr(key_b)),
                      Datum_AssocPair(k, PbStr(key_a))>>) : k \in WireStrings}
        \cup {PbObj(<<Datum_AssocPair(key_b, PbArr(<<PbStr(s)>>))>>) :
              s \in WireStrings}

InitJson ==
    /\ pc = "decode_start"
    /\ lhs \in [bridge : {"json"}, tree : JsonTrees]
                   \cup [bridge : {"protobuf"}, tree : PbTrees]
    /\ reql_version \in Versions
    /\ array_size_limit \in {MaxLimit - 1, MaxLimit}
    /\ ret = [op |-> "none", st |-> "ok", v |-> Uninit]
    /\ rhs = None /\ third = None /\ cmp_out = None
    /\ key_out = None /\ dx = None /\ dy = None /\ hex_out = None
    /\ secondary = None /\ primary = None /\ tag_num = None /\ composed = None
    /\ components = None /\ truncated = None
    /\ conditions = None /\ map = None /\ vector = None

json_unchanged ==
    <<lhs, rhs, third, reql_version, cmp_out, key_vars, conditions,
      array_size_limit, map, vector>>

\* to_datum(cJSON) on the tree received
FromJson ==
    /\ pc = "decode_start" /\ lhs.bridge = "json"
    /\ LET returned(r) ==
               ret' = [op |-> "to_datum_json", st |-> r.st,
                       v |-> IF r.st = "ok" THEN r.v ELSE Uninit]
       IN  returned(to_datum_json(lhs.tree, array_size_limit, reql_version))
    /\ pc' = "decode_done"
    /\ UNCHANGED json_unchanged

\* to_datum(const Datum) on the tree received
FromProtobuf ==
    /\ pc = "decode_start" /\ lhs.bridge = "protobuf"
    /\ LET returned(r) ==
               ret' = [op |-> "to_datum_pb", st |-> r.st,
                       v |-> IF r.st = "ok" THEN r.v ELSE Uninit]
       IN  returned(to_datum_pb(lhs.tree, array_size_limit, reql_version))
    /\ pc' = "decode_done"
    /\ UNCHANGED json_unchanged

NextJson == FromJson \/ FromProtobuf

SpecJson == InitJson /\ [][NextJson]_vars

\* the strings and keys the bridge was given
ReceivedStrings ==
    IF lhs.bridge = "json" THEN JsonStrings(lhs.tree) ELSE PbStrings(lhs.tree)

-----------------------------------------------------------------------------
(* The sanitizing constructor datum_t(std::map &&, allowed_pts) *)

\* "YQ==", the base64 text of the byte "a"
b64_a == <<89, 81, 61, 61>>
unknown_string == <<70, 79, 79>>

\* the $reql_type$ fields tried, the sentinel standing for no such field
ReqlTypeFields ==
    {Str(time_string), Str(literal_string), Str(geometry_string),
     Str(binary_string), Str(unknown_string), N(1), Null, Uninit}
\* the other fields, in ascending key order
SanitizeFields ==
    <<Pair(key_a, N(1)), Pair(data_key, Str(b64_a)), Pair(epoch_time_key, N(1)),
      Pair(value_key, N(2))>>
SanitizeMaps ==
    {(IF has(t) THEN <<Pair(reql_type_string, t)>> ELSE <<>>)
         \o SelectSeq(SanitizeFields, LAMBDA p : p.first \in S) :
     t \in ReqlTypeFields,
     S \in SUBSET {SanitizeFields[i].first : i \in 1..Len(SanitizeFields)}}

InitSan ==
    /\ pc = "sanitize_start"
    /\ map \in SanitizeMaps
    /\ third \in {{}, {literal_string}}
    /\ ret = [op |-> "none", st |-> "ok", v |-> Uninit]
    /\ lhs = None /\ rhs = None /\ reql_version = None /\ cmp_out = None
    /\ key_out = None /\ dx = None /\ dy = None /\ hex_out = None
    /\ secondary = None /\ primary = None /\ tag_num = None /\ composed = None
    /\ components = None /\ truncated = None
    /\ conditions = None /\ array_size_limit = None /\ vector = None

\* datum_t(std::move(map), allowed_pts), third being allowed_pts
ConstructFromMap ==
    /\ pc = "sanitize_start"
    /\ LET returned(r) ==
               ret' = [op |-> "datum_from_map", st |-> r.st,
                       v |-> IF r.st = "ok" THEN r.v ELSE Uninit]
       IN  returned(datum_from_map(map, third))
    /\ pc' = "sanitize_done"
    /\ UNCHANGED <<lhs, rhs, third, reql_version, cmp_out, key_vars, conditions,
                   array_size_limit, map, vector>>

\* datum_object_builder_t::to_datum() on the same map: nothing is allowed
ConstructFromBuilder ==
    /\ pc = "sanitize_start" /\ third = {}
    /\ LET returned(r) ==
               ret' = [op |-> "builder_to_datum", st |-> r.st,
                       v |-> IF r.st = "ok" THEN r.v ELSE Uninit]
       IN  returned(builder_to_datum(map))
    /\ pc' = "sanitize_done"
    /\ UNCHANGED <<lhs, rhs, third, reql_version, cmp_out, key_vars, conditions,
                   array_size_limit, map, vector>>

NextSan == ConstructFromMap \/ ConstructFromBuilder

SpecSan == InitSan /\ [][NextSan]_vars

\* the $reql_type$ field of the map given to the constructor
SanReqlType == try_get(map, reql_type_string)

\* C23: a sanitizing constructor given an OBJECT with a $reql_type$ field R
\* fails with GENERIC for R = LITERAL unless LITERAL is allowed, gives a BINARY
\* datum (never an OBJECT) for R = BINARY, fails with GENERIC for R outside
\* TIME, GEOMETRY, LITERAL and BINARY and for an R that is not a STR; an OBJECT
\* without the field is returned unchanged.
C23_SanitizingConstructor ==
    pc = "sanitize_done" =>
        LET R == SanReqlType
        IN  /\ ~has(R) => (ret.st = "ok" /\ ret.v = Obj(map))
            /\ (has(R) /\ R.type # "R_STR") => ret.st = "GENERIC"
            /\ (R = Str(literal_string) /\ literal_string \notin third) =>
                   ret.st = "GENERIC"
            /\ (R = Str(literal_string) /\ literal_string \in third
                    /\ rcheck_literal_valid(Obj(map))) =>
                   (ret.st = "ok" /\ ret.v = Obj(map))
            /\ R = Str(binary_string) =>
                   /\ ret.st \in {"ok", "GENERIC"}
                   /\ ret.st = "ok" => ret.v.type = "R_BINARY"
                   /\ try_get(map, data_key) = Str(b64_a) =>
                          (ret.st = "ok" /\ ret.v = Binary(key_a))
            /\ (R.type = "R_STR"
                    /\ R.r_str \notin {time_string, geometry_string,
                                       literal_string, binary_string}) =>
                   ret.st = "GENERIC"

\* a stray literal was refused by the constructor that allows none
C23_Witness ==
    /\ pc = "sanitize_done" /\ ret.op = "datum_from_map" /\ ret.st = "GENERIC"
    /\ third = {}
    /\ map = <<Pair(reql_type_string, Str(literal_string)),
               Pair(value_key, N(2))>>

-----------------------------------------------------------------------------
(* The OBJECT constructors: from a std::map and from a vector of pairs *)

\* datum_t::to_sorted_vec: the entries of the std::map in iteration order,
\* which is the ascending order of the keys
to_sorted_vec(m) == [i \in 1..Len(m) |-> Pair(m[i].first, m[i].second)]

\* std::is_sorted(begin, end, key_cmp): no key is below its predecessor
is_sorted(object) ==
    \A i \in 1..(Len(object) - 1) :
        ~(str_compare(object[i + 1].first, object[i].first) < 0)

\* datum_t(std::vector<std::pair<datum_string_t, datum_t>> &&, allowed_pts):
\* the vector is stored as given; the rassert on is_sorted ends the process
\* in a build without NDEBUG and is compiled out with it
datum_from_vec(object, allowed_pts, build) ==
    IF build = "debug" /\ ~is_sorted(object) THEN Fail("abort")
    ELSE maybe_sanitize_ptype(Obj(object), allowed_pts)

MaxPairs == 3
CtorPairs == {Pair(k, v) : k \in {key_a, key_b, key_z}, v \in {N(1), N(2)}}
CtorVectors == UNION {[1..n -> CtorPairs] : n \in 0..MaxPairs}

\* the std::map holding the pairs of a vector, inserted one after another
RECURSIVE map_of_pairs(_, _)
map_of_pairs(object, n) ==
    IF n = 0 THEN <<>>
    ELSE map_insert(map_of_pairs(object, n - 1), object[n].first, object[n].second)

InitCtor ==
    /\ pc = "ctor_start"
    /\ vector \in CtorVectors
    /\ map = map_of_pairs(vector, Len(vector))
    /\ conditions \in {"NDEBUG", "debug"}
    /\ ret = [op |-> "none", st |-> "ok", v |-> Uninit]
    /\ lhs = None /\ rhs = None /\ third = None /\ reql_version = None
    /\ cmp_out = None
    /\ key_out = None /\ dx = None /\ dy = None /\ hex_out = None
    /\ secondary = None /\ primary = None /\ tag_num = None /\ composed = None
    /\ components = None /\ truncated = None
    /\ array_size_limit = None

ctor_unchanged ==
    <<lhs, rhs, third, reql_version, cmp_out, key_vars, conditions,
      array_size_limit, map, vector>>

\* datum_t(std::move(map), allowed_pts)
FromStdMap ==
    /\ pc = "ctor_start"
    /\ LET returned(r) ==
               ret' = [op |-> "datum_from_map", st |-> r.st,
                       v |-> IF r.st = "ok" THEN r.v ELSE Uninit]
       IN  returned(maybe_sanitize_ptype(Obj(to_sorted_vec(map)), {}))
    /\ pc' = "ctor_done"
    /\ UNCHANGED ctor_unchanged

\* datum_t(std::move(vector), allowed_pts), conditions being the build
FromVector ==
    /\ pc = "ctor_start"
    /\ LET returned(r) ==
               ret' = [op |-> "datum_from_vec", st |-> r.st,
                       v |-> IF r.st = "ok" THEN r.v ELSE Uninit]
       IN  returned(datum_from_vec(vector, {}, conditions))
    /\ pc' = "ctor_done"
    /\ UNCHANGED ctor_unchanged

NextCtor == FromStdMap \/ FromVector

SpecCtor == InitCtor /\ [][NextCtor]_vars

\* the keys of the pairs are strictly ascending
StrictlyAscending(object) ==
    \A i \in 1..(Len(object) - 1) :
        str_compare(object[i].first, object[i + 1].first) < 0

\* C24: every OBJECT a constructor produces, from a map or from a vector of
\* pairs given in any order, has strictly ascending keys without duplicates,
\* and get_field finds every key of it.
C24_ObjectKeysStrictlyAscending ==
    (pc = "ctor_done" /\ ret.st = "ok") =>
        /\ StrictlyAscending(ret.v.r_object)
        /\ \A i \in 1..Len(ret.v.r_object) :
               has(get_field(ret.v, ret.v.r_object[i].first))

-----------------------------------------------------------------------------
(* array_to_str_key applied to lhs and rhs, and the calls it makes for the
   elements of lhs *)

\* longest array built from ArrKeyElems
MaxElemArrLen == 2
ArrKeyElems == {Num(D_one), Str(key_a), Binary(<<0>>), Arr(<<Str(key_a)>>)}
ArrKeyArrays ==
    {Arr(e) : e \in SeqsUpTo(ArrKeyElems, MaxElemArrLen)}
    \cup {Arr(<<Str(Rep(97, MAX_KEY_SIZE + 50)), Num(D_one)>>),
          Arr(<<Str(Rep(97, MAX_KEY_SIZE + 50)), Num(D_two)>>),
          Arr(<<Str(Rep(97, MAX_KEY_SIZE - 4))>>),
          Arr(<<Str(Rep(97, MAX_KEY_SIZE - 3))>>),
          Arr(<<Str(Rep(97, MAX_KEY_SIZE - 2))>>),
          Arr(<<Str(Rep(97, MAX_KEY_SIZE - 10)), Binary(key_b), Bool(TRUE)>>),
          Arr(<<Str(Rep(97, MAX_KEY_SIZE - 11)), Binary(key_ab)>>),
          Arr(<<Str(Rep(97, MAX_KEY_SIZE - 9)), Str(Rep(98, 10))>>),
          Arr(<<Bool(FALSE), Null>>)}

InitArrKey ==
    /\ pc = "arrkey_start"
    /\ lhs \in ArrKeyArrays
    /\ rhs \in ArrKeyArrays
    /\ key_out = [a |-> Fail("none"), b |-> Fail("none")]
    /\ ret = [op |-> "none", index |-> 0, output_length |-> 0, to_append |-> 0]
    /\ third = None /\ reql_version = None /\ cmp_out = None
    /\ dx = None /\ dy = None /\ hex_out = None
    /\ secondary = None /\ primary = None /\ tag_num = None /\ composed = None
    /\ components = None /\ truncated = None
    /\ conditions = None /\ array_size_limit = None /\ map = None
    /\ vector = None

\* array_to_str_key(&str_out) on an empty str_out, for lhs and for rhs
ArrayToStrKey ==
    /\ pc = "arrkey_start"
    /\ key_out' = [a |-> array_to_str_key(lhs, <<>>),
                   b |-> array_to_str_key(rhs, <<>>)]
    /\ pc' = "arrkey_done"
    /\ UNCHANGED <<lhs, rhs, third, reql_version, cmp_out, dx, dy, hex_out,
                   secondary, primary, tag_num, composed, components, truncated>>
    /\ UNCHANGED builder_vars

\* The call of str_to_str_key or binary_to_str_key the loop of
\* array_to_str_key makes for element i of lhs: str_out holds the encoding of
\* the elements before i, and the loop goes on while it is shorter than
\* MAX_KEY_SIZE.  output_length is str_out->size() in the subtraction, that is
\* after the type prefix was appended.
ElementCall(i) ==
    /\ pc = "arrkey_done"
    /\ i < Len(lhs.r_array)
    /\ lhs.r_array[i + 1].type \in {"R_STR", "R_BINARY"}
    /\ LET item == lhs.r_array[i + 1]
           called(before) ==
               /\ before.st = "ok"
               /\ Len(before.v) < MAX_KEY_SIZE
               /\ LET output_length ==
                          Len(before.v) + (IF item.type = "R_STR" THEN 1
                                           ELSE Len(binary_key_prefix))
                  IN  ret' = [op |-> IF item.type = "R_STR" THEN "str_to_str_key"
                                     ELSE "binary_to_str_key",
                              index |-> i,
                              output_length |-> output_length,
                              to_append |->
                                  Min2(SizeSub(MAX_KEY_SIZE, output_length),
                                       Len(item.r_str))]
       IN  called(array_key_loop(SubSeq(lhs.r_array, 1, i), 0, <<65>>))
    /\ pc' = "arrkey_call"
    /\ UNCHANGED <<lhs, rhs, third, reql_version, cmp_out, key_vars, conditions,
                   array_size_limit, map, vector>>

NextArrKey == ArrayToStrKey \/ \E i \in 0..MaxElemArrLen : ElementCall(i)

SpecArrKey == InitArrKey /\ [][NextArrKey]_vars

\* 'A', then the key encoding of every element followed by one NUL byte
RECURSIVE ElementsEncoding(_, _)
ElementsEncoding(items, n) ==
    IF n = 0 THEN <<>>
    ELSE ElementsEncoding(items, n - 1) \o datum_to_str_key(items[n]).v \o <<0>>
FullEncoding(d) == <<65>> \o ElementsEncoding(d.r_array, Len(d.r_array))

\* every element has a key encoding
Encodable(d) == \A i \in 1..Len(d.r_array) : datum_to_str_key(d.r_array[i]).st = "ok"

C27_KeySpaceSubtractionNeverWraps ==
    pc = "arrkey_call" =>
        /\ ret.output_length <= MAX_KEY_SIZE
        /\ ret.to_append <= MAX_KEY_SIZE - ret.output_length

-----------------------------------------------------------------------------
(* Claims about truncated_secondary, checked under SpecSec *)

\* the bytes of a composed key before the offset its last byte but one gives
SecondaryComponent(key) == SubSeq(key, 1, key[Len(key) - 1])

\* C26: for every datum v that can be a secondary key, every reql_version and
\* every primary key p of at most MAX_PRIMARY_KEY_SIZE bytes, the bytes of
\* truncated_secondary(v) are a prefix of the secondary component of
\* print_secondary(version, v, p, tag).
C26_TruncatedSecondaryIsPrefix ==
    (pc = "sec_searched" /\ composed.st = "ok") =>
        /\ key_out.st = "ok"
        /\ Len(key_out.v) <= Len(SecondaryComponent(composed.v))
        /\ key_out.v = SubSeq(SecondaryComponent(composed.v), 1, Len(key_out.v))

\* a string key cut to max_trunc_size, against an entry with a short primary
\* key that kept more of it
C26_Witness ==
    /\ pc = "sec_searched" /\ composed.st = "ok"
    /\ secondary.d = Str(Rep(97, MAX_KEY_SIZE))
    /\ primary = pk_string
    /\ key_out.st = "ok" /\ Len(key_out.v) = max_trunc_size
    /\ Len(SecondaryComponent(composed.v)) > max_trunc_size

-----------------------------------------------------------------------------
(* One call on a datum_array_builder_t holding a given vector *)

\* vector.erase(vector.begin() + start, vector.begin() + end)
vector_erase(vec, start, end) ==
    SubSeq(vec, 1, start) \o SubSeq(vec, end + 1, Len(vec))

\* erase_range with the start check of v1_14 in every version
array_builder_erase_range_modern(version, vec, start, end) ==
    IF ~(start <= Len(vec)) THEN ArrayRet("NON_EXISTENCE", vec)
    ELSE IF ~(end <= Len(vec)) THEN ArrayRet("NON_EXISTENCE", vec)
    ELSE IF ~(start <= end) THEN ArrayRet("GENERIC", vec)
    ELSE ArrayRet("ok", vector_erase(vec, start, end))
array_builder_erase_range(version, vec, start, end) ==
    IF version = "v1_13" /\ ~(start < Len(vec)) THEN ArrayRet("NON_EXISTENCE", vec)
    ELSE IF version # "v1_13" /\ ~(start <= Len(vec))
    THEN ArrayRet("NON_EXISTENCE", vec)
    ELSE IF ~(end <= Len(vec)) THEN ArrayRet("NON_EXISTENCE", vec)
    ELSE IF ~(start <= end) THEN ArrayRet("GENERIC", vec)
    ELSE ArrayRet("ok", vector_erase(vec, start, end))

array_builder_erase(vec, index) ==
    IF ~(index < Len(vec)) THEN ArrayRet("NON_EXISTENCE", vec)
    ELSE ArrayRet("ok", vector_erase(vec, index, index + 1))

\* longest vector the builder holds before the call
MaxEraseLen == 3
CallValues == {N(1), N(2), N(3)}
CallVectors == SeqsUpTo(CallValues, MaxEraseLen)
CallIndexes == 0..(MaxEraseLen + 1)

InitCall ==
    /\ pc = "builder_call"
    /\ vector \in CallVectors
    /\ array_size_limit \in 0..MaxLimit
    /\ reql_version \in Versions
    /\ ret = [op |-> "none", st |-> "ok", before |-> <<>>, start |-> 0, end |-> 0]
    /\ lhs = None /\ rhs = None /\ conditions = None /\ map = None
    /\ third = None /\ cmp_out = None
    /\ key_out = None /\ dx = None /\ dy = None /\ hex_out = None
    /\ secondary = None /\ primary = None /\ tag_num = None
    /\ composed = None /\ components = None /\ truncated = None

\* the call returns or raises: r is what the builder operation gave
Returned(op, start, end, r) ==
    /\ vector' = r.vector
    /\ ret' = [op |-> op, st |-> r.st, before |-> vector, start |-> start,
               end |-> end]
    /\ pc' = "builder_returned"
    /\ UNCHANGED arr_unchanged

CallAdd(val) ==
    /\ pc = "builder_call"
    /\ Returned("add", 0, 0, array_builder_add(vector, val, array_size_limit))

CallChange(index, val) ==
    /\ pc = "builder_call"
    /\ Returned("change", index, 0, array_builder_change(vector, index, val))

CallInsert(index, val) ==
    /\ pc = "builder_call"
    /\ Returned("insert", index, 0,
                array_builder_insert(reql_version, vector, index, val,
                                     array_size_limit))

CallSplice(index, values) ==
    /\ pc = "builder_call"
    /\ Returned("splice", index, 0,
                array_builder_splice(reql_version, vector, index, values,
                                     array_size_limit))

CallErase(index) ==
    /\ pc = "builder_call"
    /\ Returned("erase", index, 0, array_builder_erase(vector, index))

CallEraseRange(start, end) ==
    /\ pc = "builder_call"
    /\ Returned("erase_range", start, end,
                array_builder_erase_range(reql_version, vector, start, end))

NextCall ==
    \/ \E val \in CallValues : CallAdd(val)
    \/ \E index \in CallIndexes : CallChange(index, N(2))
    \/ \E index \in CallIndexes : CallInsert(index, N(2))
    \/ \E index \in CallIndexes, values \in SpliceValues : CallSplice(index, values)
    \/ \E index \in CallIndexes : CallErase(index)
    \/ \E start \in CallIndexes, end \in CallIndexes : CallEraseRange(start, end)

SpecCall == InitCall /\ [][NextCall]_vars

\* C28: a builder operation that fails leaves the element sequence as it was
\* before the call, whether add, insert or splice fail on the array size limit
\* or change, insert, splice, erase or erase_range fail on an index check; so
\* a builder on which add was called never holds more than array_size_limit
\* elements afterwards.
C28_FailedCallLeavesVector ==
    pc = "builder_returned" =>
        /\ ret.st # "ok" => vector = ret.before
        /\ (ret.op = "add" /\ Len(ret.before) <= array_size_limit) =>
               Len(vector) <= array_size_limit

-----------------------------------------------------------------------------
(* add_warnings against add_warning message by message *)

\* the messages of a std::set<std::string> in iteration order: ascending
RECURSIVE set_in_order(_)
set_in_order(msgs) ==
    IF msgs = {} THEN <<>>
    ELSE LET least == CHOOSE x \in msgs :
                          \A y \in msgs : str_compare(x, y) <= 0
         IN  <<least>> \o set_in_order(msgs \ {least})

\* for (auto const & msg : msgs) { ...; if (!seen) out.add(datum_t(msg)); }
\* over the messages from position i on; seen is looked up in the array the
\* entry held before the call
RECURSIVE warnings_loop(_, _, _, _, _)
warnings_loop(entry_array, msgs, i, out, limit) ==
    IF i > Len(msgs) THEN ArrayRet("ok", out)
    ELSE LET added(a) ==
                 IF a.st # "ok" THEN a
                 ELSE warnings_loop(entry_array, msgs, i + 1, a.vector, limit)
             looked_up(seen) ==
                 IF seen = "GENERIC" THEN ArrayRet("GENERIC", out)
                 ELSE IF seen = "present"
                 THEN warnings_loop(entry_array, msgs, i + 1, out, limit)
                 ELSE added(array_builder_add(out, Str(msgs[i]), limit))
         IN  looked_up(warning_loop(entry_array, 0, msgs[i]))

\* datum_object_builder_t::add_warnings(msgs, limits)
builder_add_warnings(m, msgs, limit) ==
    IF msgs = {} THEN BuilderRet("ok", m, FALSE)
    ELSE
    LET m1 == map_entry(m, warnings_field)
        warnings_entry == try_get(m1, warnings_field)
        stored(a) ==
            IF a.st # "ok" THEN BuilderRet(a.st, m1, FALSE)
            ELSE BuilderRet("ok", map_assign(m1, warnings_field,
                                             array_builder_to_datum(a.vector)),
                            FALSE)
        copied(out) ==
            IF out.st # "ok" THEN BuilderRet(out.st, m1, FALSE)
            ELSE stored(warnings_loop(warnings_entry.r_array, set_in_order(msgs),
                                      1, out.vector, limit))
    IN  IF has(warnings_entry)
        THEN IF warnings_entry.type # "R_ARRAY" THEN BuilderRet("GENERIC", m1, FALSE)
             ELSE IF ~(Len(warnings_entry.r_array) + Cardinality(msgs) <= limit)
             THEN BuilderRet("GENERIC", m1, FALSE)
             ELSE copied(array_builder_copy_from(warnings_entry, limit))
        ELSE stored(warnings_loop(<<>>, set_in_order(msgs), 1, <<>>, limit))

\* add_warning(m, limits) for each message from position i on, up to the
\* first call that raises
RECURSIVE add_warning_each(_, _, _, _)
add_warning_each(m, msgs, i, limit) ==
    IF i > Len(msgs) THEN BuilderRet("ok", m, FALSE)
    ELSE LET added(r) ==
                 IF r.st # "ok" THEN r
                 ELSE add_warning_each(r.map, msgs, i + 1, limit)
         IN  added(builder_add_warning(m, msgs[i], limit))

\* the "warnings" arrays a builder may hold before the call
WarningArrays ==
    {w \in SeqsUpTo(Messages, MaxLimit) : \A i, j \in 1..Len(w) : i # j => w[i] # w[j]}
WarningMaps ==
    {<<>>, <<Pair(key_a, N(2))>>}
    \cup {<<Pair(warnings_field, Arr([i \in 1..Len(w) |-> Str(w[i])]))>> :
          w \in WarningArrays}

InitWarn ==
    /\ pc = "warn_start"
    /\ map \in WarningMaps
    /\ array_size_limit \in 0..MaxLimit
    \* the array held was built under the same limit
    /\ has(try_get(map, warnings_field)) =>
           Len(try_get(map, warnings_field).r_array) <= array_size_limit
    /\ ret = [op |-> "none", st |-> "ok", msgs |-> {}, before |-> <<>>]
    /\ lhs = None /\ rhs = None /\ conditions = None /\ vector = None
    /\ third = None /\ reql_version = None /\ cmp_out = None
    /\ key_out = None /\ dx = None /\ dy = None /\ hex_out = None
    /\ secondary = None /\ primary = None /\ tag_num = None
    /\ composed = None /\ components = None /\ truncated = None

warn_unchanged ==
    <<lhs, rhs, third, reql_version, cmp_out, key_vars, conditions,
      array_size_limit, vector>>

AddWarnings(msgs) ==
    /\ pc = "warn_start"
    /\ LET returned(r) ==
               /\ map' = r.map
               /\ ret' = [op |-> "add_warnings", st |-> r.st, msgs |-> msgs,
                          before |-> map]
       IN  returned(builder_add_warnings(map, msgs, array_size_limit))
    /\ pc' = "warn_done"
    /\ UNCHANGED warn_unchanged

\* add_warning called for every message of msgs in ascending order
AddWarningEach(msgs) ==
    /\ pc = "warn_start"
    /\ LET returned(r) ==
               /\ map' = r.map
               /\ ret' = [op |-> "add_warning", st |-> r.st, msgs |-> msgs,
                          before |-> map]
       IN  returned(add_warning_each(map, set_in_order(msgs), 1, array_size_limit))
    /\ pc' = "warn_done"
    /\ UNCHANGED warn_unchanged

NextWarn ==
    \/ \E msgs \in SUBSET Messages : AddWarnings(msgs)
    \/ \E msgs \in SUBSET Messages : AddWarningEach(msgs)

SpecWarn == InitWarn /\ [][NextWarn]_vars

\* C30: add_warnings(msgs, limits) has the outcome of add_warning(m, limits)
\* called for each m of msgs in ascending order, the same "warnings" array or
\* a failure in the same cases; with messages that are all present already it
\* succeeds and changes nothing.
C30_AddWarningsIsAddWarningEach ==
    (pc = "warn_done" /\ ret.op = "add_warnings") =>
        LET each == add_warning_each(ret.before, set_in_order(ret.msgs), 1,
                                     array_size_limit)
            held == try_get(ret.before, warnings_field)
        IN  /\ ret.st = each.st
            /\ ret.st = "ok" =>
                   try_get(map, warnings_field) = try_get(each.map, warnings_field)
            /\ (has(held) /\ \A m \in ret.msgs :
                                 \E i \in 1..Len(held.r_array) :
                                     held.r_array[i] = Str(m)) =>
                   (ret.st = "ok" /\ map = ret.before)

====
